---------------------------- MODULE Spec2Model ----------------------------
(***************************************************************************)
(* A model of sharingan's architecture analyzer                            *)
(* (internal/analyzer/analyzer.go): the two walks of Analyze over the      *)
(* repository tree, the interface catalog, the component detector and the  *)
(* dependency resolution; and of the MCP tool generate_architecture_diagram *)
(* (package tools) that calls it and hands the result to the renderer.     *)
(*                                                                         *)
(* Go strings are byte strings.  They are written here as TLA+ strings,    *)
(* one character per byte; Len, \o, SubSeq, Head and Tail are the          *)
(* operators of Sequences, which TLC evaluates on strings.  The two bytes  *)
(* 0xC3 0xA9 (the UTF-8 encoding of U+00E9, a lowercase letter that may    *)
(* start a Go identifier) cannot be written in a TLA+ string and are       *)
(* written with the two characters of eAcute, which occur in no other      *)
(* identifier or path of the model.                                        *)
(***************************************************************************)
EXTENDS Integers, Sequences, FiniteSets, TLC

VARIABLES
    repoPath,        \* the argument of Analyze
    tree,            \* the entries filepath.Walk visits, in its (lexical, pre-order) order
    pc,              \* where the caller / Analyze stands
    idx,             \* the entry the running walk visits next
    interfaces,      \* Analyze's local map interfaces, as the set of its keys
    components,      \* arch.Components
    dependencies,    \* arch.Dependencies
    componentNames,  \* Analyze's local map componentNames, as the set of its keys
    ri,              \* the loop index i of the resolution loop
    err,             \* Analyze's local err: what the running walk returned
    componentsIsNil, \* whether the slice arch.Components is nil
    parsed,          \* the entries the first and the second walk handed to the parser
    results,         \* what the calls of Analyze made so far returned
    hpc,             \* where archDiagramHandler stands
    request,         \* request.Params.Arguments of the running tool call
    outputPath,      \* archDiagramHandler's local outputPath
    config,          \* archDiagramHandler's local config
    toolResults,     \* the tool calls answered so far
    rendered,        \* the calls of diagram.GenerateHTML made so far
    evalArgs,        \* the arguments of the function evaluated on its own
    evalResult       \* what that function returned

vars == <<repoPath, tree, pc, idx, interfaces, components, dependencies,
          componentNames, ri, err, componentsIsNil, parsed, results,
          hpc, request, outputPath, config, toolResults, rendered,
          evalArgs, evalResult>>

\* The state of the tool handler.
toolVars == <<hpc, request, outputPath, config, toolResults, rendered>>

\* The evaluation of a single function outside of a call of Analyze or of the
\* tool.
unitVars == <<evalArgs, evalResult>>

---------------------------------------------------------------------------
(* Bounds of the model.                                                    *)

\* The caller calls Analyze at most this many times on the same repository.
MaxCalls == 2

\* A repository of the multi-file family holds at most this many source files.
MaxFiles == 3

\* A repository with a faulty entry holds at most this many source files.
MaxFaultyFiles == 2

\* A repository with excluded directories and files holds at most this many
\* top-level directories.
MaxPolicyBlocks == 2

\* The tool is called at most this many times.
MaxRequests == 2

---------------------------------------------------------------------------
(* package strings                                                         *)

upperLetters == "ABCDEFGHIJKLMNOPQRSTUVWXYZ"
lowerLetters == "abcdefghijklmnopqrstuvwxyz"

\* The bytes 0xC3 0xA9.
eAcute == "{}"

\* The ASCII capitals, one byte each.
upperBytes == {SubSeq(upperLetters, i, i) : i \in 1..Len(upperLetters)}

\* The position of byte c in s, 0 when it does not occur.
IndexByte(s, c) ==
    LET hits == {i \in 1..Len(s) : SubSeq(s, i, i) = c}
    IN  IF hits = {} THEN 0 ELSE CHOOSE i \in hits : \A j \in hits : i <= j

\* unicode.ToLower on one byte of the model's alphabet: an ASCII capital maps
\* to its small letter, every other byte (the bytes of eAcute included: U+00E9
\* is lowercase already) is unchanged.
ToLowerByte(c) ==
    IF c \notin upperBytes THEN c
    ELSE LET i == IndexByte(upperLetters, c)
         IN  SubSeq(lowerLetters, i, i)

RECURSIVE ToLower(_)
ToLower(s) == IF s = "" THEN "" ELSE ToLowerByte(Head(s)) \o ToLower(Tail(s))

Contains(s, substr) ==
    \E i \in 1..(Len(s) - Len(substr) + 1) : SubSeq(s, i, i + Len(substr) - 1) = substr

HasSuffix(s, suffix) ==
    /\ Len(s) >= Len(suffix)
    /\ SubSeq(s, Len(s) - Len(suffix) + 1, Len(s)) = suffix

HasPrefix(s, prefix) ==
    /\ Len(s) >= Len(prefix)
    /\ SubSeq(s, 1, Len(prefix)) = prefix

\* strings.Split(s, sep) for a separator of one byte.
RECURSIVE Split(_, _)
Split(s, sep) ==
    LET i == IndexByte(s, sep)
    IN  IF i = 0 THEN <<s>>
        ELSE <<SubSeq(s, 1, i - 1)>> \o Split(SubSeq(s, i + 1, Len(s)), sep)

\* The white space of the model's alphabet: space and horizontal tab.
whiteSpace == " \t"

RECURSIVE TrimLeft(_)
TrimLeft(s) ==
    IF s # "" /\ IndexByte(whiteSpace, Head(s)) # 0 THEN TrimLeft(Tail(s)) ELSE s

RECURSIVE TrimRight(_)
TrimRight(s) ==
    IF s # "" /\ IndexByte(whiteSpace, SubSeq(s, Len(s), Len(s))) # 0
    THEN TrimRight(SubSeq(s, 1, Len(s) - 1))
    ELSE s

TrimSpace(s) == TrimRight(TrimLeft(s))

---------------------------------------------------------------------------
(* package path/filepath                                                   *)

\* The position of the last "/" of path, 0 when there is none.
LastSlash(path) ==
    LET hits == {i \in 1..Len(path) : SubSeq(path, i, i) = "/"}
    IN  IF hits = {} THEN 0 ELSE CHOOSE i \in hits : \A j \in hits : j <= i

\* filepath.Dir on a clean relative path.
Dir(path) ==
    IF LastSlash(path) = 0 THEN "." ELSE SubSeq(path, 1, LastSlash(path) - 1)

\* filepath.Base on a clean path: os.FileInfo.Name() of the entry.
Base(path) == SubSeq(path, LastSlash(path) + 1, Len(path))

\* filepath.Join(root, rel): the path filepath.Walk hands to the callback for
\* the entry at rel below the root (rel = "" is the root itself).
Join(root, rel) == IF rel = "" THEN root ELSE root \o "/" \o rel

\* Whether the entry at path lies below the directory dir.
IsUnder(path, dir) == dir = "" \/ HasPrefix(path, dir \o "/")

---------------------------------------------------------------------------
(* The syntax trees go/parser yields, as far as the analyzer reads them.   *)

Ident(name)         == [node |-> "Ident", name |-> name]
StarExpr(x)         == [node |-> "StarExpr", x |-> x]
SelectorExpr(x, sel) == [node |-> "SelectorExpr", x |-> x, sel |-> sel]
ArrayType(elt)      == [node |-> "ArrayType", elt |-> elt]

InterfaceSpec(name)      == [kind |-> "interface", name |-> name, fields |-> <<>>]
StructSpec(name, fields) == [kind |-> "struct", name |-> name, fields |-> fields]

\* An entry of the tree as filepath.Walk and go/parser find it.  errs[w] is
\* the error of os.Lstat (of ioutil.ReadDir for a directory) on the entry
\* during walk w of a call, "nil" when there is none; parseErr tells whether
\* parser.ParseFile returns an error for the file, decls being the declarations
\* of the (then partial) syntax tree it returns.
DirEntry(path) ==
    [path |-> path, isDir |-> TRUE, pkg |-> "", decls |-> <<>>,
     errs |-> <<"nil", "nil">>, parseErr |-> FALSE]
FileEntry(path, pkg, decls) ==
    [path |-> path, isDir |-> FALSE, pkg |-> pkg, decls |-> decls,
     errs |-> <<"nil", "nil">>, parseErr |-> FALSE]

---------------------------------------------------------------------------
(* analyzer.go                                                             *)

ComponentHandler    == "handler"
ComponentService    == "service"
ComponentRepository == "repository"
ComponentAdapter    == "adapter"

Component(name, type, package, filePath, deps) ==
    [Name |-> name, Type |-> type, Package |-> package, FilePath |-> filePath,
     Dependencies |-> deps]

\* What Analyze hands back: a pointer to the Architecture (arch is
\* "Architecture") with a nil error, or a nil pointer (arch is "nil", there
\* is nothing to read behind it) with the error of the walk.
ReturnArch(comps, compsIsNil, deps) ==
    [arch |-> "Architecture", Components |-> comps, ComponentsIsNil |-> compsIsNil,
     Dependencies |-> deps, err |-> "nil"]

ReturnNil(walkErr) ==
    [arch |-> "nil", Components |-> <<>>, ComponentsIsNil |-> TRUE,
     Dependencies |-> <<>>, err |-> walkErr]

\* Whether append(s, more...) is nil: appending nothing returns s itself.
AppendIsNil(sIsNil, more) == IF Len(more) = 0 THEN sIsNil ELSE FALSE

\* A skipOrContinue that passes over an entry the walk could not read.
SkipOrContinueSkippingUnreadable(entry, walkErr) ==
    IF walkErr # "nil" THEN "SkipDir"
    ELSE IF entry.isDir
    THEN LET name == Base(Join(repoPath, entry.path))
         IN  IF name \in {"vendor", ".git", "node_modules", "mock", "mocks"}
             THEN "SkipDir"
             ELSE "nil"
    ELSE "nil"

\* What skipOrContinue returns for an entry, walkErr being the error the walk
\* hands to the callback with it.
SkipOrContinue(entry, walkErr) ==
    IF walkErr # "nil" THEN walkErr
    ELSE IF entry.isDir
    THEN LET name == Base(Join(repoPath, entry.path))
         IN  IF name \in {"vendor", ".git", "node_modules", "mock", "mocks"}
             THEN "SkipDir"
             ELSE "nil"
    ELSE "nil"

\* An isGoSourceFile that takes test files for sources.
IsGoSourceFileKeepingTests(path) ==
    /\ HasSuffix(path, ".go")
    /\ ~Contains(path, "/mock")
    /\ ~Contains(path, "_mock")

IsGoSourceFile(path) ==
    /\ HasSuffix(path, ".go")
    /\ ~HasSuffix(path, "_test.go")
    /\ ~Contains(path, "/mock")
    /\ ~Contains(path, "_mock")

\* A collectInterfaces that reads whatever syntax tree the parser returned.
CollectInterfacesIgnoringParseError(file, ifaces) ==
    ifaces \cup {file.decls[i].name : i \in {j \in DOMAIN file.decls :
                                              file.decls[j].kind = "interface"}}

\* The catalog after collectInterfaces on one file: unchanged when the file
\* does not parse, else with the names of the file's interface types added.
CollectInterfaces(file, ifaces) ==
    IF file.parseErr THEN ifaces
    ELSE ifaces \cup {file.decls[i].name : i \in {j \in DOMAIN file.decls :
                                                   file.decls[j].kind = "interface"}}

skipSuffixes ==
    <<"Options", "Params", "Data", "Info", "Result", "Error", "Context",
      "Structure", "Content", "Template", "Section", "Message", "Event", "Item",
      "Entry">>

ShouldSkipStruct(name) ==
    LET lower == ToLower(name)
    IN  \/ Contains(lower, "mock")
        \/ HasSuffix(name, "Request") \/ HasSuffix(name, "Response")
        \/ HasSuffix(name, "Config") \/ HasSuffix(name, "Conf")
        \/ Contains(lower, "config") \/ name = "Config"
        \/ \E i \in DOMAIN skipSuffixes : HasSuffix(name, skipSuffixes[i])
        \/ (Len(name) <= 2 /\ name # "DB")
        \/ IndexByte(lowerLetters, Head(name)) # 0

\* An extractTypeName that keeps the package qualifier of a qualified name.
RECURSIVE ExtractTypeNameQualified(_)
ExtractTypeNameQualified(expr) ==
    CASE expr.node = "Ident"        -> expr.name
      [] expr.node = "StarExpr"     -> ExtractTypeNameQualified(expr.x)
      [] expr.node = "SelectorExpr" -> expr.x \o "." \o expr.sel
      [] OTHER                      -> ""

RECURSIVE ExtractTypeName(_)
ExtractTypeName(expr) ==
    CASE expr.node = "Ident"        -> expr.name
      [] expr.node = "StarExpr"     -> ExtractTypeName(expr.x)
      [] expr.node = "SelectorExpr" -> expr.sel
      [] OTHER                      -> ""

dependencyPatterns ==
    <<"service", "store", "repo", "repository",
      "client", "api", "adapter", "provider",
      "auth", "logger", "db", "database",
      "generative", "generator">>

LooksLikeDependency(name) ==
    LET lower == ToLower(name)
    IN  \E i \in DOMAIN dependencyPatterns : Contains(lower, dependencyPatterns[i])

\* Whether a field's type name is taken as a dependency.
IsDependency(typeName, ifaces) ==
    typeName \in ifaces \/ LooksLikeDependency(typeName)

\* The loop of extractInterfaceDependencies over the fields from position i on,
\* deps being what it has appended so far (seen holds exactly those names).
RECURSIVE ExtractFrom(_, _, _, _)
ExtractFrom(fields, i, deps, ifaces) ==
    IF i > Len(fields) THEN deps
    ELSE LET typeName == ExtractTypeName(fields[i])
             seen     == {deps[k] : k \in DOMAIN deps}
         IN  IF typeName = "" \/ typeName \in seen
             THEN ExtractFrom(fields, i + 1, deps, ifaces)
             ELSE IF IsDependency(typeName, ifaces)
                  THEN ExtractFrom(fields, i + 1, Append(deps, typeName), ifaces)
                  ELSE ExtractFrom(fields, i + 1, deps, ifaces)

ExtractInterfaceDependencies(fields, ifaces) == ExtractFrom(fields, 1, <<>>, ifaces)

\* A handler rule that does not ask for a dependency.
HandlerRuleWithoutDependencies(lower, nameLower, deps) ==
    \/ Contains(lower, "transport") \/ Contains(lower, "http")
    \/ Contains(lower, "handler") \/ Contains(lower, "api")
    \/ Contains(nameLower, "server") \/ Contains(nameLower, "handler")

\* Handler/Transport layer: the first rule.
HandlerRule(lower, nameLower, deps) ==
    /\ \/ Contains(lower, "transport") \/ Contains(lower, "http")
       \/ Contains(lower, "handler") \/ Contains(lower, "api")
       \/ Contains(nameLower, "server") \/ Contains(nameLower, "handler")
    /\ Len(deps) > 0

\* A repository rule whose config guard covers the package path only, not the
\* names DB, ...Repository and ...Store.
RepositoryRuleByNameInConfig(lower, structName) ==
    \/ /\ ~Contains(lower, "config")
       /\ \/ Contains(lower, "persistence") \/ Contains(lower, "repository")
          \/ Contains(lower, "repo") \/ Contains(lower, "store")
    \/ structName = "DB" \/ HasSuffix(structName, "Repository")
    \/ HasSuffix(structName, "Store")

\* A repository rule that is also evaluated in a config package.
RepositoryRuleAlsoInConfig(lower, structName) ==
    \/ Contains(lower, "persistence") \/ Contains(lower, "repository")
    \/ Contains(lower, "repo") \/ Contains(lower, "store")
    \/ structName = "DB" \/ HasSuffix(structName, "Repository")
    \/ HasSuffix(structName, "Store")

\* Repository/Persistence layer, not in a config package.
RepositoryRule(lower, structName) ==
    /\ ~Contains(lower, "config")
    /\ \/ Contains(lower, "persistence") \/ Contains(lower, "repository")
       \/ Contains(lower, "repo") \/ Contains(lower, "store")
       \/ structName = "DB" \/ HasSuffix(structName, "Repository")
       \/ HasSuffix(structName, "Store")

\* Adapter layer.
AdapterRule(lower) ==
    \/ Contains(lower, "adapter") \/ Contains(lower, "client")
    \/ Contains(lower, "external") \/ Contains(lower, "integration")

\* A service rule that does not ask for a dependency.
ServiceRuleWithoutDependencies(lower, structName, deps) ==
    \/ Contains(lower, "service") \/ Contains(lower, "usecase")
    \/ structName = "Service" \/ HasSuffix(structName, "Service")

\* Service layer.
ServiceRule(lower, structName, deps) ==
    /\ \/ Contains(lower, "service") \/ Contains(lower, "usecase")
       \/ structName = "Service" \/ HasSuffix(structName, "Service")
    /\ Len(deps) > 0

\* A fallback that takes a single dependency for a service already.
AnyDependency(deps) == Len(deps) >= 1

\* "If it has multiple dependencies, it's likely a service".
MultipleDependencies(deps) == Len(deps) >= 2

\* A classifier that checks the service layer before the repository layer.
DetectServiceBeforeRepository(pkgPath, structName, deps) ==
    LET lower     == ToLower(pkgPath)
        nameLower == ToLower(structName)
    IN  IF HandlerRule(lower, nameLower, deps) THEN ComponentHandler
        ELSE IF ServiceRule(lower, structName, deps) THEN ComponentService
        ELSE IF RepositoryRule(lower, structName) THEN ComponentRepository
        ELSE IF AdapterRule(lower) THEN ComponentAdapter
        ELSE IF MultipleDependencies(deps) THEN ComponentService
        ELSE ""

\* "" is the code's "not an architectural component".
DetectComponentTypeFromContext(pkgPath, structName, deps) ==
    LET lower     == ToLower(pkgPath)
        nameLower == ToLower(structName)
    IN  IF HandlerRule(lower, nameLower, deps) THEN ComponentHandler
        ELSE IF RepositoryRule(lower, structName) THEN ComponentRepository
        ELSE IF AdapterRule(lower) THEN ComponentAdapter
        ELSE IF ServiceRule(lower, structName, deps) THEN ComponentService
        ELSE IF MultipleDependencies(deps) THEN ComponentService
        ELSE ""

\* The callback of ast.Inspect in analyzeFileForComponents on the declarations
\* of the file from position i on, out being the components appended so far.
RECURSIVE InspectFrom(_, _, _, _)
InspectFrom(file, i, out, ifaces) ==
    IF i > Len(file.decls) THEN out
    ELSE LET spec     == file.decls[i]
             relPath  == file.path
             pkgPath  == Dir(relPath)
             deps     == ExtractInterfaceDependencies(spec.fields, ifaces)
             compType == DetectComponentTypeFromContext(pkgPath, spec.name, deps)
         IN  IF spec.kind # "struct" \/ ShouldSkipStruct(spec.name) \/ compType = ""
             THEN InspectFrom(file, i + 1, out, ifaces)
             ELSE InspectFrom(file, i + 1,
                      Append(out, Component(spec.name, compType, file.pkg, relPath, deps)),
                      ifaces)

\* The components of one file: nil when the file does not parse.
AnalyzeFileForComponents(file, ifaces) ==
    IF file.parseErr THEN <<>> ELSE InspectFrom(file, 1, <<>>, ifaces)

---------------------------------------------------------------------------
(* package diagram: the configuration of the HTML report.                  *)

WidgetArchitectureGraph == "architecture_graph"
WidgetComponentsPie     == "components_pie"
WidgetDependenciesBar   == "dependencies_bar"
WidgetComponentsTable   == "components_table"
WidgetLayerFlow         == "layer_flow"
WidgetStatsCards        == "stats_cards"
WidgetDependencyMatrix  == "dependency_matrix"
WidgetPackageTree       == "package_tree"

HTMLConfig(title, description, widgets, theme) ==
    [Title |-> title, Description |-> description, Widgets |-> widgets,
     Theme |-> theme]

DefaultConfig ==
    HTMLConfig("Go Architecture Report", "Interactive architecture visualization",
               <<WidgetStatsCards, WidgetArchitectureGraph, WidgetComponentsPie,
                 WidgetDependenciesBar, WidgetLayerFlow, WidgetDependencyMatrix,
                 WidgetComponentsTable>>,
               "dark")

---------------------------------------------------------------------------
(* package tools: the arguments of a tool call and what is made of them.   *)

\* The values of request.Params.Arguments: a JSON string, a JSON number, or
\* no entry under the key.
Str(s)  == [type |-> "string", value |-> s]
Num(n)  == [type |-> "float64", value |-> n]
Absent  == [type |-> "absent", value |-> ""]

NoArguments == [repo_path |-> Absent, output_path |-> Absent, title |-> Absent,
                description |-> Absent, theme |-> Absent, widgets |-> Absent]

Arguments(repo, output, title, description, theme, widgets) ==
    [repo_path |-> repo, output_path |-> output, title |-> title,
     description |-> description, theme |-> theme, widgets |-> widgets]

\* The type assertion .(string): ok, and the string when ok.
IsString(v) == v.type = "string"

\* ok && s != ""
NonEmptyString(v) == IsString(v) /\ v.value # ""

\* The keys of widgetMap; each maps to the WidgetType of the same text.
widgetMap ==
    {WidgetStatsCards, WidgetArchitectureGraph, WidgetComponentsPie,
     WidgetDependenciesBar, WidgetLayerFlow, WidgetDependencyMatrix,
     WidgetComponentsTable, WidgetPackageTree}

\* A loop of parseWidgets that matches the names as they are written.
RECURSIVE ParsePartsCaseSensitive(_, _)
ParsePartsCaseSensitive(parts, i) ==
    IF i > Len(parts) THEN <<>>
    ELSE LET name == TrimSpace(parts[i])
         IN  (IF name \in widgetMap THEN <<name>> ELSE <<>>)
                 \o ParsePartsCaseSensitive(parts, i + 1)

\* The loop of parseWidgets over the parts from position i on.
RECURSIVE ParseParts(_, _)
ParseParts(parts, i) ==
    IF i > Len(parts) THEN <<>>
    ELSE LET name == TrimSpace(ToLower(parts[i]))
         IN  (IF name \in widgetMap THEN <<name>> ELSE <<>>)
                 \o ParseParts(parts, i + 1)

ParseWidgets(widgetsStr) ==
    LET widgets == ParseParts(Split(widgetsStr, ","), 1)
    IN  IF Len(widgets) = 0 THEN DefaultConfig.Widgets ELSE widgets

NewToolResultError(message) == [IsError |-> TRUE, Text |-> message]

\* mcp.NewToolResultText of the summary.  Of the summary the model keeps the
\* heading, the output path and the theme; the component counts and the
\* widget list that follow are left out.
NewToolResultText(out, cfg) ==
    [IsError |-> FALSE,
     Text |-> "Interactive architecture report generated!\n\nOutput: " \o out
                \o "\nTheme: " \o cfg.Theme]

\* The output path the handler settles on.
OutputPathOf(args) ==
    IF NonEmptyString(args.output_path) THEN args.output_path.value
    ELSE Join(args.repo_path.value, "architecture.html")

ThemeOf(args, cfg) ==
    IF NonEmptyString(args.theme) /\ args.theme.value \in {"light", "dark"}
    THEN args.theme.value
    ELSE cfg.Theme

\* The configuration the handler builds from the default one.
ConfigOf(args) ==
    LET d == DefaultConfig
    IN  HTMLConfig(IF NonEmptyString(args.title) THEN args.title.value ELSE d.Title,
                   IF NonEmptyString(args.description)
                   THEN args.description.value ELSE d.Description,
                   IF NonEmptyString(args.widgets)
                   THEN ParseWidgets(args.widgets.value) ELSE d.Widgets,
                   ThemeOf(args, d))

---------------------------------------------------------------------------
(* The repositories the model analyzes.                                    *)

RepoPaths == {"/srv/app"}

\* os.Stat on a path: the tree of the model is all there is.
Stat(path) ==
    IF path \in RepoPaths THEN tree[1].errs[1] ELSE "no such file or directory"

\* A handler that takes every os.Stat error for something other than a
\* missing path.
IsNotExistIgnored(e) == FALSE

IsNotExist(e) == e = "no such file or directory"

\* Directories a source file is declared in: the chain of directory entries
\* the walk visits down to it, and the name in the file's package clause.
PkgDirs ==
    { [dirs |-> <<>>,                                  pkg |-> "main"],
      [dirs |-> <<"foo">>,                             pkg |-> "foo"],
      [dirs |-> <<"handler">>,                         pkg |-> "handler"],
      [dirs |-> <<"HTTP">>,                            pkg |-> "http"],
      [dirs |-> <<"service">>,                         pkg |-> "service"],
      [dirs |-> <<"usecase">>,                         pkg |-> "usecase"],
      [dirs |-> <<"repository">>,                      pkg |-> "repository"],
      [dirs |-> <<"internal", "internal/repository">>, pkg |-> "repository"],
      [dirs |-> <<"api", "api/repository">>,           pkg |-> "repository"],
      [dirs |-> <<"config", "config/repository">>,     pkg |-> "repository"],
      [dirs |-> <<"internal", "internal/config">>,     pkg |-> "config"],
      [dirs |-> <<"client">>,                          pkg |-> "client"],
      [dirs |-> <<"vendor">>,                          pkg |-> "vendor"] }

StructNames ==
    { "UserService", "Orchestrator", "PingHandler", "OrderRepository", "UserStore",
      "DB", "Service", "AuthServer", "Engine",
      "UserMock", "MOCKServer", "CreateUserRequest", "ListResponse", "AppConfig",
      "AuthConf", "Reconfigurer", "PaymentResult", "ID", "internalHelper",
      eAcute \o "Service" }

FieldLists ==
    { <<>>,
      <<Ident("UserClient"), Ident("OrderClient")>>,
      <<Ident("string"), StarExpr(Ident("UserRepo"))>>,
      <<StarExpr(SelectorExpr("port", "Notifier")), ArrayType(Ident("UserClient"))>>,
      <<SelectorExpr("port", "Notifier"), Ident("Logger"), StarExpr(Ident("Logger"))>> }

\* One record type in one directory, and possibly a later file that declares
\* the interface Notifier.
WideTree(d, name, fields, withInterface) ==
    LET dir  == IF d.dirs = <<>> THEN "" ELSE d.dirs[Len(d.dirs)]
        file == Join(dir, "a.go")
    IN  <<DirEntry("")>>
        \o [i \in 1..Len(d.dirs) |-> DirEntry(d.dirs[i])]
        \o <<FileEntry(IF dir = "" THEN "a.go" ELSE file, d.pkg,
                       <<StructSpec(name, fields)>>)>>
        \o (IF withInterface
            THEN <<DirEntry("zport"),
                   FileEntry("zport/p.go", "zport", <<InterfaceSpec("Notifier")>>)>>
            ELSE <<>>)

\* The source files of the multi-file repositories, each with its directory,
\* in the order the walk meets them.
FileBlocks ==
    << <<DirEntry("adapter"),
         FileEntry("adapter/c.go", "adapter", <<StructSpec("Client", <<>>)>>)>>,
       <<DirEntry("client"),
         FileEntry("client/c.go", "client",
             <<StructSpec("Client", <<StarExpr(Ident("DB")),
                                      StarExpr(Ident("Client"))>>)>>)>>,
       <<DirEntry("handler"),
         FileEntry("handler/h.go", "handler",
             <<StructSpec("OrderHandler", <<StarExpr(Ident("OrderService")),
                                            Ident("Notifier")>>)>>)>>,
       <<DirEntry("repository"),
         FileEntry("repository/o.go", "repository",
             <<StructSpec("OrderRepository", <<>>)>>)>>,
       <<DirEntry("service"),
         FileEntry("service/o.go", "service",
             <<StructSpec("OrderService", <<Ident("OrderRepository"),
                                            Ident("PaymentClient")>>)>>)>>,
       <<DirEntry("store"),
         FileEntry("store/db.go", "store", <<StructSpec("DB", <<>>)>>)>>,
       <<DirEntry("zport"),
         FileEntry("zport/p.go", "zport",
             <<InterfaceSpec("PaymentClient"), InterfaceSpec("Notifier")>>)>> >>

\* The blocks whose positions are in S, in order.
RECURSIVE BlocksFrom(_, _)
BlocksFrom(i, S) ==
    IF i > Len(FileBlocks) THEN <<>>
    ELSE (IF i \in S THEN FileBlocks[i] ELSE <<>>) \o BlocksFrom(i + 1, S)

MultiTree(S) == <<DirEntry("")>> \o BlocksFrom(1, S)

\* What every file outside the candidate set declares: an interface and a
\* record that would be a component.
Excludable(path, pkg) ==
    FileEntry(path, pkg, <<InterfaceSpec("Notifier"),
                           StructSpec("AuditService", <<Ident("Logger")>>)>>)

\* Top-level directories with and without excluded content, in the order the
\* walk meets them.
PolicyBlocks ==
    << <<DirEntry(".git"), Excludable(".git/hook.go", "hooks")>>,
       <<DirEntry("handler"),
         FileEntry("handler/h.go", "handler",
             <<StructSpec("OrderHandler", <<StarExpr(Ident("OrderService")),
                                            Ident("Notifier")>>)>>)>>,
       <<DirEntry("internal"), DirEntry("internal/mocks"),
         Excludable("internal/mocks/n.go", "mocks")>>,
       <<DirEntry("mock"), Excludable("mock/m.go", "mock")>>,
       <<DirEntry("mockery"), Excludable("mockery/g.go", "mockery")>>,
       <<DirEntry("node_modules"), DirEntry("node_modules/lib"),
         Excludable("node_modules/lib/l.go", "lib")>>,
       <<DirEntry("service"),
         FileEntry("service/README.md", "", <<>>),
         FileEntry("service/o.go", "service",
             <<StructSpec("OrderService", <<Ident("OrderRepository"),
                                            Ident("PaymentClient")>>)>>),
         Excludable("service/o_test.go", "service"),
         Excludable("service/user_mock.go", "service")>>,
       <<DirEntry("vendor"), DirEntry("vendor/dep"),
         Excludable("vendor/dep/v.go", "dep")>>,
       <<DirEntry("zport"),
         FileEntry("zport/p.go", "zport", <<InterfaceSpec("PaymentClient")>>)>> >>

\* The blocks of PolicyBlocks whose positions are in S, in order.
RECURSIVE PolicyBlocksFrom(_, _)
PolicyBlocksFrom(i, S) ==
    IF i > Len(PolicyBlocks) THEN <<>>
    ELSE (IF i \in S THEN PolicyBlocks[i] ELSE <<>>) \o PolicyBlocksFrom(i + 1, S)

PolicyTree(S) == <<DirEntry("")>> \o PolicyBlocksFrom(1, S)

EmptyMap == <<>>

\* What can be wrong with an entry: it cannot be read during either walk of a
\* call (a directory without read permission, a file in a directory without
\* search permission), it loses that permission between the two walks, the
\* root does not exist, or the file is not valid Go.
Faults == {"unreadable", "revoked", "missing", "malformed"}

WithFault(t, i, fault) ==
    [t EXCEPT ![i] =
        CASE fault = "unreadable" ->
                 [@ EXCEPT !.errs = <<"permission denied", "permission denied">>]
          [] fault = "revoked" ->
                 [@ EXCEPT !.errs = <<"nil", "permission denied">>]
          [] fault = "missing" ->
                 [@ EXCEPT !.errs = <<"no such file or directory",
                                      "no such file or directory">>]
          [] fault = "malformed" ->
                 [@ EXCEPT !.parseErr = TRUE]]

InitWide ==
    \E d \in PkgDirs, name \in StructNames, fields \in FieldLists, w \in BOOLEAN :
        tree = WideTree(d, name, fields, w)

InitMulti ==
    \E S \in SUBSET (1..Len(FileBlocks)) :
        /\ Cardinality(S) <= MaxFiles
        /\ tree = MultiTree(S)

\* A multi-file repository with one faulty entry.
InitFaulty ==
    \E S \in SUBSET (1..Len(FileBlocks)) :
        /\ Cardinality(S) <= MaxFaultyFiles
        /\ \E i \in 1..Len(MultiTree(S)), fault \in Faults :
              /\ fault = "malformed" => ~MultiTree(S)[i].isDir
              /\ fault = "missing" => i = 1
              /\ tree = WithFault(MultiTree(S), i, fault)

\* A repository with directories and files the enumeration excludes.
InitPolicy ==
    \E S \in SUBSET (1..Len(PolicyBlocks)) :
        /\ Cardinality(S) <= MaxPolicyBlocks
        /\ tree = PolicyTree(S)

\* Before the first call: Analyze and the tool handler are not running.
Idle ==
    /\ pc = "idle"
    /\ idx = 1
    /\ interfaces = {}
    /\ components = <<>>
    /\ dependencies = EmptyMap
    /\ componentNames = {}
    /\ ri = 1
    /\ err = "nil"
    /\ componentsIsNil = TRUE
    /\ parsed = <<{}, {}>>
    /\ results = <<>>
    /\ hpc = "idle"
    /\ request = NoArguments
    /\ outputPath = ""
    /\ config = HTMLConfig("", "", <<>>, "")
    /\ toolResults = <<>>
    /\ rendered = <<>>

\* No function is evaluated on its own.
NotEvaluating ==
    /\ evalArgs = <<>>
    /\ evalResult = <<>>

Init ==
    /\ repoPath \in RepoPaths
    /\ (InitWide \/ InitMulti \/ InitFaulty \/ InitPolicy)
    /\ Idle
    /\ NotEvaluating

---------------------------------------------------------------------------
(* Analyze, step by step.                                                  *)

\* The entry filepath.Walk visits after entry i, given what the callback
\* returned for it: SkipDir on a directory skips everything below it.
WalkNext(i, returned) ==
    IF returned = "SkipDir"
    THEN LET rest == {j \in (i + 1)..Len(tree) : ~IsUnder(tree[j].path, tree[i].path)}
         IN  IF rest = {} THEN Len(tree) + 1
             ELSE CHOOSE j \in rest : \A k \in rest : j <= k
    ELSE i + 1

\* An Analyze that goes on with the Architecture of the call before.
AnalyzeStartReusingArchitecture ==
    /\ pc \in {"idle", "done", "failed"}
    /\ Len(results) < MaxCalls
    /\ interfaces' = {}
    /\ componentNames' = {}
    /\ idx' = 1
    /\ ri' = 1
    /\ err' = "nil"
    /\ parsed' = <<{}, {}>>
    /\ pc' = "pass1"
    /\ UNCHANGED <<repoPath, tree, components, dependencies, componentsIsNil, results>>
    /\ UNCHANGED <<toolVars, unitVars>>

\* An Analyze whose Architecture starts with a nil component slice.
AnalyzeStartWithNilComponents ==
    /\ pc \in {"idle", "done", "failed"}
    /\ Len(results) < MaxCalls
    /\ components' = <<>>
    /\ componentsIsNil' = TRUE
    /\ dependencies' = EmptyMap
    /\ interfaces' = {}
    /\ componentNames' = {}
    /\ idx' = 1
    /\ ri' = 1
    /\ err' = "nil"
    /\ parsed' = <<{}, {}>>
    /\ pc' = "pass1"
    /\ UNCHANGED <<repoPath, tree, results>>
    /\ UNCHANGED <<toolVars, unitVars>>

\* The entry of Analyze(path): a new Architecture ([]Component{} is an empty
\* slice that is not nil) and a new catalog.
AnalyzeCall(path) ==
    /\ repoPath' = path
    /\ components' = <<>>
    /\ componentsIsNil' = FALSE
    /\ dependencies' = EmptyMap
    /\ interfaces' = {}
    /\ componentNames' = {}
    /\ idx' = 1
    /\ ri' = 1
    /\ err' = "nil"
    /\ parsed' = <<{}, {}>>
    /\ pc' = "pass1"

\* A caller calls Analyze on the repository.
AnalyzeStart ==
    /\ pc \in {"idle", "done", "failed"}
    /\ Len(results) < MaxCalls
    /\ AnalyzeCall(repoPath)
    /\ UNCHANGED <<tree, results>>
    /\ UNCHANGED <<toolVars, unitVars>>

\* The callback of the first walk on one entry.  A callback that returns an
\* error other than SkipDir ends the walk, which returns that error.
Pass1Visit ==
    /\ pc = "pass1"
    /\ err = "nil"
    /\ idx <= Len(tree)
    /\ LET entry   == tree[idx]
           walkErr == entry.errs[1]
       IN  IF walkErr # "nil" \/ entry.isDir
           THEN LET returned == SkipOrContinue(entry, walkErr)
                IN  /\ IF returned \in {"nil", "SkipDir"}
                       THEN idx' = WalkNext(idx, returned) /\ err' = err
                       ELSE idx' = idx /\ err' = returned
                    /\ interfaces' = interfaces
                    /\ parsed' = parsed
           ELSE IF ~IsGoSourceFile(Join(repoPath, entry.path))
           THEN /\ idx' = idx + 1
                /\ err' = err
                /\ interfaces' = interfaces
                /\ parsed' = parsed
           ELSE /\ idx' = idx + 1
                /\ err' = err
                /\ interfaces' = CollectInterfaces(entry, interfaces)
                /\ parsed' = [parsed EXCEPT ![1] = @ \cup {idx}]
    /\ UNCHANGED <<repoPath, tree, pc, components, dependencies, componentNames,
                   ri, componentsIsNil, results>>
    /\ UNCHANGED <<toolVars, unitVars>>

\* A second walk that may start while the first is under way.
Pass1CompleteAnyTime == TRUE

\* Whether the first walk has returned.
Pass1Complete == idx > Len(tree) \/ err # "nil"

\* The first walk returned an error: return nil, err.
Pass1Fail ==
    /\ pc = "pass1"
    /\ Pass1Complete
    /\ err # "nil"
    /\ results' = Append(results, ReturnNil(err))
    /\ pc' = "failed"
    /\ UNCHANGED <<repoPath, tree, parsed, idx, interfaces, components, dependencies,
                   componentNames, ri, err, componentsIsNil>>
    /\ UNCHANGED <<toolVars, unitVars>>

\* The first walk returned nil: the second walk starts.
Pass1End ==
    /\ pc = "pass1"
    /\ Pass1Complete
    /\ err = "nil"
    /\ pc' = "pass2"
    /\ idx' = 1
    /\ UNCHANGED <<repoPath, tree, parsed, interfaces, components, dependencies,
                   componentNames, ri, err, componentsIsNil, results>>
    /\ UNCHANGED <<toolVars, unitVars>>

\* A second walk that puts the components of a file in front of the list.
Pass2VisitPrepending ==
    /\ pc = "pass2"
    /\ err = "nil"
    /\ idx <= Len(tree)
    /\ LET entry   == tree[idx]
           walkErr == entry.errs[2]
       IN  IF walkErr # "nil" \/ entry.isDir
           THEN LET returned == SkipOrContinue(entry, walkErr)
                IN  /\ IF returned \in {"nil", "SkipDir"}
                       THEN idx' = WalkNext(idx, returned) /\ err' = err
                       ELSE idx' = idx /\ err' = returned
                    /\ components' = components
                    /\ componentsIsNil' = componentsIsNil
                    /\ parsed' = parsed
           ELSE IF ~IsGoSourceFile(Join(repoPath, entry.path))
           THEN /\ idx' = idx + 1
                /\ err' = err
                /\ components' = components
                /\ componentsIsNil' = componentsIsNil
                /\ parsed' = parsed
           ELSE LET found == AnalyzeFileForComponents(entry, interfaces)
                IN  /\ idx' = idx + 1
                    /\ err' = err
                    /\ components' = found \o components
                    /\ componentsIsNil' = AppendIsNil(componentsIsNil, found)
                    /\ parsed' = [parsed EXCEPT ![2] = @ \cup {idx}]
    /\ UNCHANGED <<repoPath, tree, pc, interfaces, dependencies, componentNames,
                   ri, results>>
    /\ UNCHANGED <<toolVars, unitVars>>

\* A second walk whose catalog lookups enter the names they look up.
Pass2VisitInsertingOnLookup ==
    /\ pc = "pass2"
    /\ err = "nil"
    /\ idx <= Len(tree)
    /\ LET entry   == tree[idx]
           walkErr == entry.errs[2]
       IN  IF walkErr # "nil" \/ entry.isDir
           THEN LET returned == SkipOrContinue(entry, walkErr)
                IN  /\ IF returned \in {"nil", "SkipDir"}
                       THEN idx' = WalkNext(idx, returned) /\ err' = err
                       ELSE idx' = idx /\ err' = returned
                    /\ components' = components
                    /\ componentsIsNil' = componentsIsNil
                    /\ parsed' = parsed
                    /\ interfaces' = interfaces
           ELSE IF ~IsGoSourceFile(Join(repoPath, entry.path))
           THEN /\ idx' = idx + 1
                /\ err' = err
                /\ components' = components
                /\ componentsIsNil' = componentsIsNil
                /\ parsed' = parsed
                /\ interfaces' = interfaces
           ELSE LET found == AnalyzeFileForComponents(entry, interfaces)
                IN  /\ idx' = idx + 1
                    /\ err' = err
                    /\ components' = components \o found
                    /\ componentsIsNil' = AppendIsNil(componentsIsNil, found)
                    /\ parsed' = [parsed EXCEPT ![2] = @ \cup {idx}]
                    /\ interfaces' = interfaces \cup
                          UNION { {ExtractTypeName(entry.decls[d].fields[f]) :
                                      f \in DOMAIN entry.decls[d].fields}
                                  : d \in DOMAIN entry.decls }
    /\ UNCHANGED <<repoPath, tree, pc, dependencies, componentNames, ri, results>>
    /\ UNCHANGED <<toolVars, unitVars>>

\* The callback of the second walk on one entry.
Pass2Visit ==
    /\ pc = "pass2"
    /\ err = "nil"
    /\ idx <= Len(tree)
    /\ LET entry   == tree[idx]
           walkErr == entry.errs[2]
       IN  IF walkErr # "nil" \/ entry.isDir
           THEN LET returned == SkipOrContinue(entry, walkErr)
                IN  /\ IF returned \in {"nil", "SkipDir"}
                       THEN idx' = WalkNext(idx, returned) /\ err' = err
                       ELSE idx' = idx /\ err' = returned
                    /\ components' = components
                    /\ componentsIsNil' = componentsIsNil
                    /\ parsed' = parsed
           ELSE IF ~IsGoSourceFile(Join(repoPath, entry.path))
           THEN /\ idx' = idx + 1
                /\ err' = err
                /\ components' = components
                /\ componentsIsNil' = componentsIsNil
                /\ parsed' = parsed
           ELSE LET found == AnalyzeFileForComponents(entry, interfaces)
                IN  /\ idx' = idx + 1
                    /\ err' = err
                    /\ components' = components \o found
                    /\ componentsIsNil' = AppendIsNil(componentsIsNil, found)
                    /\ parsed' = [parsed EXCEPT ![2] = @ \cup {idx}]
    /\ UNCHANGED <<repoPath, tree, pc, interfaces, dependencies, componentNames,
                   ri, results>>
    /\ UNCHANGED <<toolVars, unitVars>>

\* An Analyze that hands back what it has collected together with the error.
Pass2FailExposingArchitecture ==
    /\ pc = "pass2"
    /\ err # "nil"
    /\ results' = Append(results,
                     [ReturnArch(components, componentsIsNil, dependencies)
                         EXCEPT !.err = err])
    /\ pc' = "failed"
    /\ UNCHANGED <<repoPath, tree, parsed, idx, interfaces, components, dependencies,
                   componentNames, ri, err, componentsIsNil>>
    /\ UNCHANGED <<toolVars, unitVars>>

\* The second walk returned an error: return nil, err.
Pass2Fail ==
    /\ pc = "pass2"
    /\ err # "nil"
    /\ results' = Append(results, ReturnNil(err))
    /\ pc' = "failed"
    /\ UNCHANGED <<repoPath, tree, parsed, idx, interfaces, components, dependencies,
                   componentNames, ri, err, componentsIsNil>>
    /\ UNCHANGED <<toolVars, unitVars>>

\* A name set that also takes the cataloged interfaces for components.
BuildComponentNamesWithInterfaces(comps) ==
    {comps[i].Name : i \in DOMAIN comps} \cup interfaces

\* The keys of componentNames after the loop that fills it.
BuildComponentNames(comps) == {comps[i].Name : i \in DOMAIN comps}

\* The second walk returned nil: componentNames is built.
Pass2End ==
    /\ pc = "pass2"
    /\ idx > Len(tree)
    /\ err = "nil"
    /\ componentNames' = BuildComponentNames(components)
    /\ ri' = 1
    /\ pc' = "resolve"
    /\ UNCHANGED <<repoPath, tree, parsed, idx, interfaces, components, dependencies, err,
                   componentsIsNil, results>>
    /\ UNCHANGED <<toolVars, unitVars>>

\* A resolution that returns the kept dependencies in reverse order.
RECURSIVE ValidDepsReversed(_, _)
ValidDepsReversed(deps, names) ==
    IF deps = <<>> THEN <<>>
    ELSE ValidDepsReversed(Tail(deps), names)
             \o (IF Head(deps) \in names THEN <<Head(deps)>> ELSE <<>>)

\* A resolution that keeps every extracted dependency.
ValidDepsUnfiltered(deps, names) == deps

\* The dependencies of one component that the resolution keeps.
ValidDeps(deps, names) == SelectSeq(deps, LAMBDA dep : dep \in names)

\* arch.Dependencies[name] = validDeps
MapStore(map, name, validDeps) ==
    [k \in (DOMAIN map) \cup {name} |-> IF k = name THEN validDeps ELSE map[k]]

\* A resolution loop that classifies the component again with the
\* dependencies it kept.
ResolveStepReclassifying ==
    /\ pc = "resolve"
    /\ ri <= Len(components)
    /\ LET validDeps == ValidDeps(components[ri].Dependencies, componentNames)
       IN  /\ components' =
                 [components EXCEPT
                     ![ri].Dependencies = validDeps,
                     ![ri].Type = DetectComponentTypeFromContext(
                                      Dir(components[ri].FilePath),
                                      components[ri].Name, validDeps)]
           /\ dependencies' = MapStore(dependencies, components[ri].Name, validDeps)
    /\ ri' = ri + 1
    /\ UNCHANGED <<repoPath, tree, parsed, pc, idx, interfaces, componentNames, err,
                   componentsIsNil, results>>
    /\ UNCHANGED <<toolVars, unitVars>>

\* A resolution loop that also drops a component's own name.
ResolveStepDroppingSelf ==
    /\ pc = "resolve"
    /\ ri <= Len(components)
    /\ LET self      == components[ri].Name
           validDeps == SelectSeq(components[ri].Dependencies,
                                  LAMBDA dep : dep \in componentNames /\ dep # self)
       IN  /\ components' = [components EXCEPT ![ri].Dependencies = validDeps]
           /\ dependencies' = MapStore(dependencies, self, validDeps)
    /\ ri' = ri + 1
    /\ UNCHANGED <<repoPath, tree, parsed, pc, idx, interfaces, componentNames, err,
                   componentsIsNil, results>>
    /\ UNCHANGED <<toolVars, unitVars>>

\* One iteration of the resolution loop.
ResolveStep ==
    /\ pc = "resolve"
    /\ ri <= Len(components)
    /\ LET validDeps == ValidDeps(components[ri].Dependencies, componentNames)
       IN  /\ components' = [components EXCEPT ![ri].Dependencies = validDeps]
           /\ dependencies' = MapStore(dependencies, components[ri].Name, validDeps)
    /\ ri' = ri + 1
    /\ UNCHANGED <<repoPath, tree, parsed, pc, idx, interfaces, componentNames, err,
                   componentsIsNil, results>>
    /\ UNCHANGED <<toolVars, unitVars>>

\* return arch, nil
Return ==
    /\ pc = "resolve"
    /\ ri > Len(components)
    /\ results' = Append(results, ReturnArch(components, componentsIsNil, dependencies))
    /\ pc' = "done"
    /\ UNCHANGED <<repoPath, tree, parsed, idx, interfaces, components, dependencies,
                   componentNames, ri, err, componentsIsNil>>
    /\ UNCHANGED <<toolVars, unitVars>>

Next ==
    \/ AnalyzeStart
    \/ Pass1Visit
    \/ Pass1Fail
    \/ Pass1End
    \/ Pass2Visit
    \/ Pass2Fail
    \/ Pass2End
    \/ ResolveStep
    \/ Return

Spec == Init /\ [][Next]_vars

---------------------------------------------------------------------------
(* The tool generate_architecture_diagram.                                 *)

\* The tool calls the model makes.
Requests ==
    { Arguments(Str("/srv/app"), Absent, Absent, Absent, Absent, Absent),
      Arguments(Str("/srv/app"), Str("/tmp/out.html"), Str("Orders"),
                Str("The order system"), Str("light"),
                Str("stats_cards, Package_Tree")),
      Arguments(Str("/srv/app"), Str(""), Str(""), Absent, Str("neon"),
                Str("bogus, ,charts")),
      Arguments(Str("/srv/app"), Absent, Absent, Absent, Num("1"), Str("")),
      Arguments(Num("42"), Absent, Absent, Absent, Absent, Num("7")),
      Arguments(Absent, Str("/tmp/out.html"), Absent, Absent, Absent, Absent),
      Arguments(Str("/srv/gone"), Str("/tmp/out.html"), Absent, Absent, Absent,
                Absent) }

\* The repositories the tool is called on: without a source file, with
\* components, with a record that is no component, and with faulty entries.
ToolTrees ==
    { MultiTree({}),
      MultiTree({3}),
      MultiTree({4, 5, 7}),
      WideTree([dirs |-> <<"handler">>, pkg |-> "handler"], "PingHandler", <<>>, FALSE),
      WithFault(MultiTree({4}), 1, "missing"),
      WithFault(MultiTree({4}), 1, "unreadable"),
      WithFault(MultiTree({4, 5}), 4, "revoked"),
      WithFault(MultiTree({3, 7}), 5, "malformed") }

ToolInit ==
    /\ repoPath \in RepoPaths
    /\ tree \in ToolTrees
    /\ Idle
    /\ NotEvaluating

\* What the log keeps of an answered tool call: its arguments, the arguments
\* of the call of Analyze it made (none or one), what that call returned, the
\* call of the renderer it made (none or one), and what the handler returned:
\* the tool result and the error, which is nil in every return statement.
Answer(args, analyzeArgs, analysis, render, result) ==
    [Arguments |-> args, analyzeArgs |-> analyzeArgs, analysis |-> analysis,
     render |-> render, result |-> result, err |-> "nil"]

\* A handler that analyzes the directory of the output file when one is given.
AnalyzeArgumentFromOutputPath(args) ==
    IF NonEmptyString(args.output_path) THEN Dir(args.output_path.value)
    ELSE args.repo_path.value

\* The argument the handler passes to analyzer.Analyze.
AnalyzeArgument(args) == args.repo_path.value

\* archDiagramHandler up to its call of analyzer.Analyze.
ArchDiagramHandlerCall ==
    /\ hpc = "idle"
    /\ pc \in {"idle", "done", "failed"}
    /\ Len(toolResults) < MaxRequests
    /\ \E args \in Requests :
          /\ request' = args
          /\ IF ~IsString(args.repo_path)
             THEN /\ toolResults' = Append(toolResults,
                         Answer(args, <<>>, <<>>, <<>>,
                                NewToolResultError("repo_path is required")))
                  /\ UNCHANGED <<repoPath, pc, idx, interfaces, components,
                                 dependencies, componentNames, ri, err,
                                 componentsIsNil, parsed, hpc, outputPath, config>>
             ELSE IF IsNotExist(Stat(args.repo_path.value))
             THEN /\ toolResults' = Append(toolResults,
                         Answer(args, <<>>, <<>>, <<>>,
                                NewToolResultError("repository path does not exist: "
                                                      \o args.repo_path.value)))
                  /\ UNCHANGED <<repoPath, pc, idx, interfaces, components,
                                 dependencies, componentNames, ri, err,
                                 componentsIsNil, parsed, hpc, outputPath, config>>
             ELSE /\ outputPath' = OutputPathOf(args)
                  /\ config' = ConfigOf(args)
                  /\ AnalyzeCall(AnalyzeArgument(args))
                  /\ hpc' = "analyzing"
                  /\ UNCHANGED toolResults
    /\ UNCHANGED <<tree, results, rendered>>
    /\ UNCHANGED unitVars

\* A handler that renders whatever Analyze returned without an error.
RendersEmptyResult(arch) == FALSE

\* len(arch.Components) == 0
NoComponents(arch) == Len(arch.Components) = 0

\* archDiagramHandler from the return of analyzer.Analyze on.  The renderer
\* writes the file or fails to.
ArchDiagramHandlerReturn ==
    /\ hpc = "analyzing"
    /\ pc \in {"done", "failed"}
    /\ LET arch == results[Len(results)]
           call == <<repoPath>>
       IN  IF arch.err # "nil"
           THEN /\ toolResults' = Append(toolResults,
                       Answer(request, call, <<arch>>, <<>>,
                              NewToolResultError("failed to analyze repository: "
                                                    \o arch.err)))
                /\ rendered' = rendered
           ELSE IF NoComponents(arch)
           THEN /\ toolResults' = Append(toolResults,
                       Answer(request, call, <<arch>>, <<>>,
                              NewToolResultError(
                                  "no architectural components found in the repository")))
                /\ rendered' = rendered
           ELSE \E writeErr \in {"nil", "permission denied"} :
                    LET render == [arch |-> arch, outputPath |-> outputPath,
                                   config |-> config, err |-> writeErr]
                    IN
                    /\ rendered' = Append(rendered, render)
                    /\ toolResults' = Append(toolResults,
                           Answer(request, call, <<arch>>, <<render>>,
                                  IF writeErr = "nil"
                                  THEN NewToolResultText(outputPath, config)
                                  ELSE NewToolResultError(
                                           "failed to generate report: failed to write HTML file: "
                                               \o writeErr)))
    /\ hpc' = "idle"
    /\ UNCHANGED <<repoPath, tree, pc, idx, interfaces, components, dependencies,
                   componentNames, ri, err, componentsIsNil, parsed, results,
                   request, outputPath, config>>
    /\ UNCHANGED unitVars

ToolNext ==
    \/ ArchDiagramHandlerCall
    \/ Pass1Visit
    \/ Pass1Fail
    \/ Pass1End
    \/ Pass2Visit
    \/ Pass2Fail
    \/ Pass2End
    \/ ResolveStep
    \/ Return
    \/ ArchDiagramHandlerReturn

ToolSpec == ToolInit /\ [][ToolNext]_vars

---------------------------------------------------------------------------
(* Properties of the Architecture that Analyze returns.                    *)

Range(seq) == {seq[i] : i \in DOMAIN seq}

NamesOf(comps) == {comps[i].Name : i \in DOMAIN comps}

\* C1: dependency closure.  In every Architecture returned by Analyze, every
\* name in a component's Dependencies is the Name of some component of
\* Components.
DependencyClosure ==
    \A r \in DOMAIN results :
        \A i \in DOMAIN results[r].Components :
            Range(results[r].Components[i].Dependencies) \subseteq NamesOf(results[r].Components)

\* Analyze has returned an Architecture in which the resolution kept one
\* dependency of a component and dropped another.
DependencyClosureWitness ==
    /\ pc = "done"
    /\ \E i \in DOMAIN components :
          /\ components[i].Name = "OrderService"
          /\ components[i].Dependencies = <<"OrderRepository">>
    /\ results[Len(results)].Components = components

\* C2 as stated: every name in a component's resolved dependencies is the name
\* of some OTHER entry of Components, so the component's own name survives
\* only when a different component carries it too.
DependenciesNameOtherComponents ==
    \A r \in DOMAIN results :
        \A i \in DOMAIN results[r].Components :
            \A d \in Range(results[r].Components[i].Dependencies) :
                \E j \in DOMAIN results[r].Components :
                    j # i /\ results[r].Components[j].Name = d

\* C2 as amended: the resolution performs no self-loop suppression.  A
\* component's own name, once among its extracted dependencies, is still
\* among them after every step of the resolution (the component itself is a
\* retained component of that name), so a resolved dependency names a
\* component of Components that may be the component itself.
SelfDependencySurvives ==
    [][ pc = "resolve" =>
          \A i \in DOMAIN components :
              components[i].Name \in Range(components[i].Dependencies)
                  => components'[i].Name \in Range(components'[i].Dependencies) ]_vars

\* Analyze has returned a component that depends on its own name while no
\* other component has that name.
SelfDependencyWitness ==
    /\ pc = "done"
    /\ \E i \in DOMAIN components :
          /\ components[i].Name \in Range(components[i].Dependencies)
          /\ \A j \in DOMAIN components : j # i => components[j].Name # components[i].Name

\* C3 as stated: the dependency index is in lockstep with the component list.
\* Its keys are the component names and, for every component, the index holds
\* under its name exactly its Dependencies, also when two components share a
\* name.
IndexInLockstep ==
    \A r \in DOMAIN results :
        /\ DOMAIN results[r].Dependencies = NamesOf(results[r].Components)
        /\ \A i \in DOMAIN results[r].Components :
               results[r].Dependencies[results[r].Components[i].Name]
                   = results[r].Components[i].Dependencies

---------------------------------------------------------------------------
(* The records of the repository and what became of them.                  *)

\* The entries a walk that meets no error visits, from entry i on.
RECURSIVE VisitedFrom(_)
VisitedFrom(i) ==
    IF i > Len(tree) THEN {}
    ELSE {i} \cup VisitedFrom(WalkNext(i, SkipOrContinue(tree[i], "nil")))

\* The candidate source files: the entries both walks hand to the parser.
CandidateFiles ==
    {i \in VisitedFrom(1) : ~tree[i].isDir /\ IsGoSourceFile(Join(repoPath, tree[i].path))}

\* The candidate files that parse.
ParsedFiles == {i \in CandidateFiles : ~tree[i].parseErr}

\* The record type declarations of the candidate files that parse:
\* <<file, declaration>>.
Records ==
    {fk \in ParsedFiles \X (1..Len(tree)) :
        /\ fk[2] \in DOMAIN tree[fk[1]].decls
        /\ tree[fk[1]].decls[fk[2]].kind = "struct"}

RecordName(fk)    == tree[fk[1]].decls[fk[2]].name
RecordFields(fk)  == tree[fk[1]].decls[fk[2]].fields
RecordPkgPath(fk) == ToLower(Dir(tree[fk[1]].path))

\* The kind under which the record was emitted, "" when it was not.
EmittedType(fk) ==
    LET hits == {j \in DOMAIN components :
                    /\ components[j].Name = RecordName(fk)
                    /\ components[j].FilePath = tree[fk[1]].path}
    IN  IF hits = {} THEN "" ELSE components[CHOOSE j \in hits : TRUE].Type

\* The second walk of the running call has returned.
AfterPass2 == pc \in {"resolve", "done"}

\* The components still carry their extracted dependencies.
BeforeResolution == pc = "pass2" \/ (pc = "resolve" /\ ri = 1)

---------------------------------------------------------------------------
(* The rules of the specification, sections 4.2 and 8.                     *)

NoiseSuffixes ==
    {"Request", "Response", "Config", "Conf", "Options", "Params", "Data", "Info",
     "Result", "Error", "Context", "Structure", "Content", "Template", "Section",
     "Message", "Event", "Item", "Entry"}

\* A letter of category Ll: an ASCII small letter or, in the model's alphabet,
\* U+00E9.
BeginsWithLowercaseLetter(name) ==
    \/ \E i \in 1..Len(lowerLetters) : HasPrefix(name, SubSeq(lowerLetters, i, i))
    \/ HasPrefix(name, eAcute)

\* The noise filter of step 1.
NoiseName(name) ==
    LET lower == ToLower(name)
    IN  \/ Contains(lower, "mock")
        \/ Contains(lower, "config")
        \/ \E suffix \in NoiseSuffixes : HasSuffix(name, suffix)
        \/ (Len(name) <= 2 /\ name # "DB")
        \/ BeginsWithLowercaseLetter(name)

HandlerPath(lowerPath) ==
    \E m \in {"transport", "http", "handler", "api"} : Contains(lowerPath, m)

HandlerShape(lowerPath, name) ==
    \/ HandlerPath(lowerPath)
    \/ LET lower == ToLower(name)
       IN  Contains(lower, "server") \/ Contains(lower, "handler")

RepositoryShape(lowerPath, name) ==
    /\ ~Contains(lowerPath, "config")
    /\ \/ \E m \in {"persistence", "repository", "repo", "store"} : Contains(lowerPath, m)
       \/ name = "DB"
       \/ HasSuffix(name, "Repository") \/ HasSuffix(name, "Store")

AdapterShape(lowerPath) ==
    \E m \in {"adapter", "client", "external", "integration"} : Contains(lowerPath, m)

ServiceShape(lowerPath, name) ==
    \/ \E m \in {"service", "usecase"} : Contains(lowerPath, m)
    \/ name = "Service" \/ HasSuffix(name, "Service")

\* The dependencies step 2 extracts from the record, given the catalog.
Extracted(fk) == ExtractInterfaceDependencies(RecordFields(fk), interfaces)

\* C4 as stated: noise exclusion.  No Architecture that Analyze returns holds
\* a component whose name the noise filter of step 1 discards: a name that
\* contains "mock" or "config" in any case, ends in one of the listed
\* suffixes, has at most two bytes and is not "DB", or begins with a
\* lowercase letter.
NoiseExclusion ==
    \A r \in DOMAIN results :
        \A i \in DOMAIN results[r].Components :
            ~NoiseName(results[r].Components[i].Name)

\* C5 as stated: a record named UserService in a package path that contains
\* "repository" is emitted as Repository, whatever else the path contains and
\* whatever its extracted dependencies.
UserServiceInRepositoryIsRepository ==
    AfterPass2 =>
        \A fk \in Records :
            (RecordName(fk) = "UserService" /\ Contains(RecordPkgPath(fk), "repository"))
                => EmittedType(fk) = ComponentRepository

\* C5 as amended: such a record is Repository, not Service, unless the Handler
\* rule matches first (the path also contains transport, http, handler or api
\* and the record has an extracted dependency: it is Handler) or the path
\* contains "config" (the Repository rule is not evaluated: it is never
\* Repository).
UserServiceInRepositoryKind ==
    AfterPass2 =>
        \A fk \in Records :
            (RecordName(fk) = "UserService" /\ Contains(RecordPkgPath(fk), "repository"))
                => IF HandlerPath(RecordPkgPath(fk)) /\ Len(Extracted(fk)) >= 1
                   THEN EmittedType(fk) = ComponentHandler
                   ELSE IF ~Contains(RecordPkgPath(fk), "config")
                   THEN EmittedType(fk) = ComponentRepository
                   ELSE EmittedType(fk) # ComponentRepository

\* UserService with an extracted dependency, declared in internal/repository,
\* was emitted as Repository.
UserServiceInRepositoryWitness ==
    /\ pc = "resolve" /\ ri = 1
    /\ \E i \in DOMAIN components :
          /\ components[i].Name = "UserService"
          /\ components[i].FilePath = "internal/repository/a.go"
          /\ components[i].Type = ComponentRepository
          /\ components[i].Dependencies = <<"UserClient", "OrderClient">>

\* C6: the fallback rule.  A record that passes the noise filter and matches
\* none of the Handler, Repository, Adapter and Service naming/package rules
\* is emitted as Service when it has two or more extracted dependencies, and
\* is not emitted when it has fewer.
FallbackRule ==
    AfterPass2 =>
        \A fk \in Records :
            LET name == RecordName(fk)
                path == RecordPkgPath(fk)
            IN  ( /\ ~NoiseName(name)
                  /\ ~HandlerShape(path, name)
                  /\ ~RepositoryShape(path, name)
                  /\ ~AdapterShape(path)
                  /\ ~ServiceShape(path, name) )
                    => IF Len(Extracted(fk)) >= 2
                       THEN EmittedType(fk) = ComponentService
                       ELSE EmittedType(fk) = ""

\* Orchestrator in package foo, with fields of types UserClient and
\* OrderClient, was emitted as Service.
FallbackRuleWitness ==
    /\ pc = "resolve" /\ ri = 1
    /\ components = <<Component("Orchestrator", ComponentService, "foo", "foo/a.go",
                                <<"UserClient", "OrderClient">>)>>

\* C7: a handler needs a dependency.  No component is Handler with zero
\* extracted dependencies; a handler-shaped record with none falls through to
\* the later rules (Repository, Adapter: Service and the fallback need
\* dependencies too) and, when none of them matches, is not emitted.
HandlerRequiresDependency ==
    /\ BeforeResolution =>
          \A i \in DOMAIN components :
              components[i].Type = ComponentHandler => components[i].Dependencies # <<>>
    /\ AfterPass2 =>
          \A fk \in Records :
              LET name == RecordName(fk)
                  path == RecordPkgPath(fk)
              IN  ( /\ Extracted(fk) = <<>>
                    /\ ~NoiseName(name)
                    /\ HandlerShape(path, name) )
                      => EmittedType(fk) =
                            IF RepositoryShape(path, name) THEN ComponentRepository
                            ELSE IF AdapterShape(path) THEN ComponentAdapter
                            ELSE ""

\* PingHandler in package handler, with no fields, was discarded.
HandlerRequiresDependencyWitness ==
    /\ pc = "resolve"
    /\ components = <<>>
    /\ \E fk \in Records :
          /\ RecordName(fk) = "PingHandler"
          /\ tree[fk[1]].path = "handler/a.go"
          /\ RecordFields(fk) = <<>>

---------------------------------------------------------------------------
(* Whole analyses.                                                         *)

\* What a renderer reads of a component: its name, kind and dependencies.
Shape(c) == [Name |-> c.Name, Type |-> c.Type, Dependencies |-> c.Dependencies]

ShapesOf(comps) == {Shape(comps[i]) : i \in DOMAIN comps}

\* The repository of the minimal service graph: package service declares
\* OrderService with fields of types OrderRepository and PaymentClient,
\* package repository declares OrderRepository without fields, there is no
\* other record, and PaymentClient is declared as an interface.
MinimalServiceGraph ==
    /\ \E s, t \in Records :
          /\ Records = {s, t}
          /\ RecordName(s) = "OrderService"
          /\ Dir(tree[s[1]].path) = "service"
          /\ RecordFields(s) = <<Ident("OrderRepository"), Ident("PaymentClient")>>
          /\ RecordName(t) = "OrderRepository"
          /\ Dir(tree[t[1]].path) = "repository"
          /\ RecordFields(t) = <<>>
    /\ \E i \in ParsedFiles : \E k \in DOMAIN tree[i].decls :
          tree[i].decls[k] = InterfaceSpec("PaymentClient")

\* C8: the minimal service graph.  On that repository the detector emits
\* exactly OrderService (Service, dependencies OrderRepository and
\* PaymentClient) and OrderRepository (Repository, none), and every returned
\* Architecture holds these two components with OrderService's dependencies
\* resolved to exactly OrderRepository: PaymentClient, which names only an
\* interface, is dropped.
MinimalServiceGraphResult ==
    /\ (pc = "resolve" /\ ri = 1 /\ MinimalServiceGraph) =>
          /\ Len(components) = 2
          /\ ShapesOf(components) =
                { [Name |-> "OrderService", Type |-> ComponentService,
                   Dependencies |-> <<"OrderRepository", "PaymentClient">>],
                  [Name |-> "OrderRepository", Type |-> ComponentRepository,
                   Dependencies |-> <<>>] }
    /\ (pc = "done" /\ MinimalServiceGraph) =>
          \A r \in DOMAIN results :
              /\ Len(results[r].Components) = 2
              /\ ShapesOf(results[r].Components) =
                    { [Name |-> "OrderService", Type |-> ComponentService,
                       Dependencies |-> <<"OrderRepository">>],
                      [Name |-> "OrderRepository", Type |-> ComponentRepository,
                       Dependencies |-> <<>>] }
              /\ DOMAIN results[r].Dependencies = {"OrderService", "OrderRepository"}
              /\ results[r].Dependencies["OrderService"] = <<"OrderRepository">>
              /\ results[r].Dependencies["OrderRepository"] = <<>>

\* Analyze has returned on the repository of the minimal service graph.
MinimalServiceGraphWitness ==
    /\ pc = "done"
    /\ Len(results) >= 1
    /\ MinimalServiceGraph

\* Two component lists that are equal up to order.
SameUpToOrder(a, b) ==
    /\ Len(a) = Len(b)
    /\ \A c \in Range(a) \cup Range(b) :
           Cardinality({i \in DOMAIN a : a[i] = c}) = Cardinality({i \in DOMAIN b : b[i] = c})

\* C9: idempotence.  Any two calls of Analyze on the unchanged repository
\* return component lists that are equal up to order and identical dependency
\* indices: nothing of an earlier call reaches a later one.
Idempotence ==
    \A r1, r2 \in DOMAIN results :
        /\ SameUpToOrder(results[r1].Components, results[r2].Components)
        /\ results[r1].Dependencies = results[r2].Dependencies
        /\ results[r1].err = results[r2].err

\* Analyze has returned twice on a repository with components and resolved
\* dependencies.
IdempotenceWitness ==
    /\ Len(results) >= 2
    /\ \E i \in DOMAIN results[2].Components :
          results[2].Components[i].Dependencies # <<>>

\* The interfaces declared in the candidate files that parse.
AllInterfaces ==
    UNION { {tree[i].decls[k].name : k \in {j \in DOMAIN tree[i].decls :
                                              tree[i].decls[j].kind = "interface"}}
            : i \in ParsedFiles }

\* The orders in which the candidate files can be visited.
WalkOrders ==
    {o \in [1..Cardinality(CandidateFiles) -> CandidateFiles] :
        \A a, b \in DOMAIN o : a # b => o[a] # o[b]}

\* The detector run over the files in the given order, with the given catalog.
RECURSIVE DetectInOrder(_, _, _)
DetectInOrder(order, k, ifaces) ==
    IF k > Len(order) THEN <<>>
    ELSE AnalyzeFileForComponents(tree[order[k]], ifaces)
            \o DetectInOrder(order, k + 1, ifaces)

\* C10: the two passes are strictly sequential.  While the detector runs, the
\* catalog holds the interfaces of every candidate file, and what it emits
\* (the components with their extracted dependencies) is what it would emit
\* with the files walked in any other order.
TwoPassesSequential ==
    /\ pc = "pass2" => interfaces = AllInterfaces
    /\ (pc = "resolve" /\ ri = 1) =>
          LET catalog == AllInterfaces
          IN  \A order \in WalkOrders :
                  SameUpToOrder(components, DetectInOrder(order, 1, catalog))

\* A component has the dependency Notifier only because Notifier is an
\* interface, and the file that declares the interface is visited after the
\* file that declares the component.
TwoPassesSequentialWitness ==
    /\ pc = "resolve" /\ ri = 1
    /\ \E c \in DOMAIN components : \E i, j \in CandidateFiles :
          /\ "Notifier" \in Range(components[c].Dependencies)
          /\ ~LooksLikeDependency("Notifier")
          /\ tree[i].path = components[c].FilePath
          /\ \E k \in DOMAIN tree[j].decls : tree[j].decls[k] = InterfaceSpec("Notifier")
          /\ i < j

---------------------------------------------------------------------------
(* Failures: files that do not parse, entries that cannot be read.         *)

\* The candidate files the parser rejects.
MalformedFiles == {i \in CandidateFiles : tree[i].parseErr}

\* Whether no entry of the tree fails to be read in either walk.
NoWalkError == \A i \in DOMAIN tree : tree[i].errs = <<"nil", "nil">>

\* The members of a set of entries, in the order of the walk.
RECURSIVE Ascending(_)
Ascending(S) ==
    IF S = {} THEN <<>>
    ELSE LET m == CHOOSE x \in S : \A y \in S : x <= y
         IN  <<m>> \o Ascending(S \ {m})

\* C11: a candidate file that fails to parse is skipped in both passes.  It
\* adds no interface to the catalog and no component to the result, the
\* catalog and the components are those of the other candidate files alone
\* (in the order of the walk), and, the walks meeting no error, every call of
\* Analyze returns an Architecture and a nil error.
MalformedFileSkipped ==
    (\E i \in DOMAIN tree : tree[i].parseErr) =>
        /\ pc = "pass2" => interfaces = AllInterfaces
        /\ pc \in {"pass2", "resolve", "done"} =>
              \A m \in MalformedFiles : \A c \in DOMAIN components :
                  components[c].FilePath # tree[m].path
        /\ (pc = "resolve" /\ ri = 1) =>
              components = DetectInOrder(Ascending(ParsedFiles), 1, AllInterfaces)
        /\ NoWalkError =>
              /\ pc # "failed"
              /\ \A r \in DOMAIN results :
                    results[r].err = "nil" /\ results[r].arch = "Architecture"

\* Analyze has returned an Architecture for a repository in which the file
\* that declares the interface Notifier does not parse: OrderHandler, declared
\* in another file, is a component, and its field of type Notifier gave no
\* dependency.
MalformedFileSkippedWitness ==
    /\ pc = "done"
    /\ results[Len(results)].err = "nil"
    /\ \E m \in MalformedFiles : \E k \in DOMAIN tree[m].decls :
          tree[m].decls[k] = InterfaceSpec("Notifier")
    /\ \E f \in ParsedFiles : \E k \in DOMAIN tree[f].decls :
          /\ tree[f].decls[k].kind = "struct"
          /\ Ident("Notifier") \in Range(tree[f].decls[k].fields)
    /\ \E c \in DOMAIN results[Len(results)].Components :
          results[Len(results)].Components[c].Name = "OrderHandler"
    /\ interfaces = {}

\* The entries at which a walk that stops at no error would find one, in
\* walk w of a call.
FailingEntries(w) ==
    IF \A i \in DOMAIN tree : tree[i].errs[w] = "nil" THEN {}
    ELSE {i \in VisitedFrom(1) : tree[i].errs[w] # "nil"}

\* C12: an error means no Architecture.  When the root cannot be walked every
\* call returns that error and a nil Architecture.  Whenever Analyze returns
\* an error, from either walk, the Architecture it returns is nil (and it is
\* nil only then), whatever was collected before.  When the first walk
\* fails, the second never runs: Analyze is never in its second walk or
\* beyond, and no component is ever collected.
ErrorMeansNoArchitecture ==
    /\ \A r \in DOMAIN results :
          /\ results[r].err # "nil" <=> results[r].arch = "nil"
          /\ results[r].arch = "nil" => results[r] = ReturnNil(results[r].err)
    /\ tree[1].errs[1] # "nil" =>
          \A r \in DOMAIN results : results[r] = ReturnNil(tree[1].errs[1])
    /\ FailingEntries(1) # {} =>
          /\ pc \notin {"pass2", "resolve", "done"}
          /\ components = <<>>
          /\ \A r \in DOMAIN results : results[r].err # "nil"
    /\ (FailingEntries(1) = {} /\ FailingEntries(2) # {}) =>
          /\ pc \notin {"resolve", "done"}
          /\ \A r \in DOMAIN results : results[r].err # "nil"

\* Analyze has returned the error of its second walk and a nil Architecture
\* after the walk had collected components.
ErrorMeansNoArchitectureWitness ==
    /\ pc = "failed"
    /\ components # <<>>
    /\ results[Len(results)] = ReturnNil("permission denied")

\* The error of the first entry a call of Analyze fails to read, "nil" when
\* it reads them all.
FirstError ==
    IF FailingEntries(1) # {}
    THEN tree[Ascending(FailingEntries(1))[1]].errs[1]
    ELSE IF FailingEntries(2) # {}
    THEN tree[Ascending(FailingEntries(2))[1]].errs[2]
    ELSE "nil"

\* C13 as stated: Analyze aborts only when the tree cannot be enumerated at
\* all.  With a root that can be walked, no call fails, whatever is wrong with
\* an entry below the root.
OnlyRootFailureAborts ==
    tree[1].errs = <<"nil", "nil">> =>
        /\ pc # "failed"
        /\ \A r \in DOMAIN results : results[r].err = "nil"

\* C13 as amended: Analyze aborts whenever a walk cannot read an entry it
\* visits, the root or a file or directory below it: every call returns the
\* error of the first such entry (of the first walk, else of the second) and
\* succeeds only when there is none.  The one failure that makes an entry
\* contribute nothing while the analysis continues is a file that does not
\* parse.
WalkErrorAborts ==
    /\ \A r \in DOMAIN results : results[r].err = FirstError
    /\ pc = "failed" => FirstError # "nil"
    /\ pc \in {"resolve", "done"} => FirstError = "nil"

\* Analyze has failed on a repository whose root can be walked: a directory
\* below the root cannot be read.
WalkErrorAbortsWitness ==
    /\ pc = "failed"
    /\ tree[1].errs = <<"nil", "nil">>
    /\ \E i \in DOMAIN tree :
          /\ i > 1
          /\ tree[i].isDir
          /\ tree[i].errs[1] = "permission denied"
    /\ results[Len(results)].err = "permission denied"

\* Whether no record of the tree qualifies as a component: each is discarded
\* by the noise filter or matches no rule of the classifier.
NoQualifyingRecord ==
    \A fk \in Records :
        \/ ShouldSkipStruct(RecordName(fk))
        \/ DetectComponentTypeFromContext(Dir(tree[fk[1]].path), RecordName(fk),
               ExtractInterfaceDependencies(RecordFields(fk), AllInterfaces)) = ""

\* C14: an empty result is not an error.  When no record of the tree
\* qualifies as a component (and every entry can be read), Analyze returns a
\* nil error and an Architecture whose Components is an empty slice that is
\* not nil and whose Dependencies is an empty map; and no returned
\* Architecture without components comes with an error.
EmptyResultIsNoError ==
    \A r \in DOMAIN results :
        /\ \/ results[r] = ReturnArch(<<>>, FALSE, EmptyMap)
           \/ ~NoWalkError
           \/ pc # "done"
           \/ ~NoQualifyingRecord
        /\ (results[r].arch = "Architecture" /\ results[r].Components = <<>>) =>
              /\ results[r].err = "nil"
              /\ ~results[r].ComponentsIsNil
              /\ results[r].Dependencies = EmptyMap

\* Analyze has returned the empty Architecture for a repository that declares
\* a record type in a candidate file.
EmptyResultIsNoErrorWitness ==
    /\ pc = "done"
    /\ Records # {}
    /\ NoQualifyingRecord
    /\ results[Len(results)] = ReturnArch(<<>>, FALSE, EmptyMap)

---------------------------------------------------------------------------
(* The enumeration of the source files.                                    *)

ExcludedDirNames == {"vendor", ".git", "node_modules", "mock", "mocks"}

\* Whether entry i lies under a directory of an excluded name.
UnderExcludedDir(i) ==
    \E j \in 1..(i - 1) :
        /\ tree[j].isDir
        /\ IsUnder(tree[i].path, tree[j].path)
        /\ Base(Join(repoPath, tree[j].path)) \in ExcludedDirNames

\* Whether the path of entry i carries a mock marker: a path element that
\* begins with "mock", or "_mock" anywhere.
MockMarked(i) ==
    LET path == Join(repoPath, tree[i].path)
    IN  Contains(path, "/mock") \/ Contains(path, "_mock")

ExcludedFile(i) ==
    /\ ~tree[i].isDir
    /\ \/ HasSuffix(tree[i].path, "_test.go")
       \/ MockMarked(i)
       \/ UnderExcludedDir(i)

\* The Go files of the tree that are not excluded.
IncludedFiles ==
    {i \in DOMAIN tree : /\ ~tree[i].isDir
                         /\ HasSuffix(tree[i].path, ".go")
                         /\ ~ExcludedFile(i)}

InterfacesDeclaredIn(files) ==
    UNION { {tree[i].decls[k].name : k \in {j \in DOMAIN tree[i].decls :
                                              tree[i].decls[j].kind = "interface"}}
            : i \in files }

\* C17: source enumeration exclusions.  A file under a directory named
\* vendor, .git, node_modules, mock or mocks, a file whose name ends in
\* _test.go, and a file whose path carries a mock marker is never handed to
\* the parser, in neither walk: the catalog holds only interfaces declared in
\* the other files and no component comes from such a file.  Both walks apply
\* the same policy: once both have returned, each has parsed exactly the Go
\* files that are not excluded.
EnumerationExclusions ==
    /\ \A i \in parsed[1] \cup parsed[2] : ~ExcludedFile(i)
    /\ interfaces = {} \/ interfaces \subseteq InterfacesDeclaredIn(IncludedFiles)
    /\ \A c \in DOMAIN components : \A i \in DOMAIN tree :
          components[c].FilePath = tree[i].path => ~ExcludedFile(i)
    /\ pc \in {"resolve", "done"} =>
          /\ parsed[1] = parsed[2]
          /\ parsed[1] = IncludedFiles

\* Analyze has returned on a repository that holds a test file and a mock
\* file next to a source file, and a vendor directory: both walks parsed the
\* source file alone, and the catalog is empty although the excluded files
\* declare an interface.
EnumerationExclusionsWitness ==
    /\ pc = "done"
    /\ \E i, j, k, v \in DOMAIN tree :
          /\ tree[i].path = "service/o.go"
          /\ tree[j].path = "service/o_test.go"
          /\ tree[k].path = "service/user_mock.go"
          /\ tree[v].path = "vendor/dep/v.go"
          /\ parsed = <<{i}, {i}>>
    /\ interfaces = {}
    /\ NamesOf(results[Len(results)].Components) = {"OrderService"}

---------------------------------------------------------------------------
(* The layers of the README and the order of the rules.                    *)

\* C18 as stated: "Service Layer (services with 2+ dependencies)".  Every
\* component the detector classifies as Service has at least two extracted
\* dependencies.
ServiceHasTwoDependencies ==
    BeforeResolution =>
        \A c \in DOMAIN components :
            components[c].Type = ComponentService
                => Len(components[c].Dependencies) >= 2

\* The first rule, in the order Handler, Repository, Adapter, Service,
\* fallback, that a record of the given lowercased package path and name with
\* n extracted dependencies matches; "" when it matches none.
FirstMatch(lowerPath, name, n) ==
    IF HandlerShape(lowerPath, name) /\ n >= 1 THEN ComponentHandler
    ELSE IF RepositoryShape(lowerPath, name) THEN ComponentRepository
    ELSE IF AdapterShape(lowerPath) THEN ComponentAdapter
    ELSE IF ServiceShape(lowerPath, name) /\ n >= 1 THEN ComponentService
    ELSE IF n >= 2 THEN ComponentService
    ELSE ""

\* C20: layer classification is a fixed-priority first-match decision.  Every
\* record that passes the noise filter is emitted under the kind of the first
\* rule it matches in the order Handler (with a dependency), Repository (not
\* under a config path), Adapter, Service (with a dependency), fallback
\* Service (two dependencies), and is not emitted when it matches none.
FirstMatchClassification ==
    AfterPass2 =>
        \A fk \in Records :
            LET name == RecordName(fk)
            IN  ~NoiseName(name) =>
                    EmittedType(fk) =
                        FirstMatch(RecordPkgPath(fk), name, Len(Extracted(fk)))

\* UserService with dependencies, declared in api/repository, matches the
\* Handler, Repository and Service rules and was emitted as Handler.
FirstMatchClassificationWitness ==
    /\ pc = "resolve" /\ ri = 1
    /\ \E i \in DOMAIN components :
          /\ components[i].Name = "UserService"
          /\ components[i].FilePath = "api/repository/a.go"
          /\ components[i].Dependencies # <<>>
          /\ components[i].Type = ComponentHandler

---------------------------------------------------------------------------
(* The tool handler.                                                       *)

\* C15: the protocol layer treats an empty analysis result as a failure.
\* Every tool call whose call of Analyze returned an Architecture without
\* components is answered with the error result "no architectural components
\* found in the repository", and the renderer is invoked for no such
\* Architecture: it has been invoked exactly once for each answered call
\* whose Architecture has components.
EmptyResultIsToolFailure ==
    /\ \A k \in DOMAIN toolResults :
          LET a == toolResults[k]
          IN  (/\ a.analysis # <<>>
               /\ a.analysis[1].err = "nil"
               /\ Len(a.analysis[1].Components) = 0)
                  => a.result = [IsError |-> TRUE,
                                 Text |-> "no architectural components found in the repository"]
    /\ \A j \in DOMAIN rendered : Len(rendered[j].arch.Components) > 0
    /\ Len(rendered) =
          Cardinality({k \in DOMAIN toolResults :
                          /\ toolResults[k].analysis # <<>>
                          /\ toolResults[k].analysis[1].err = "nil"
                          /\ Len(toolResults[k].analysis[1].Components) > 0})

\* The tool was called on a repository whose only record is not a component:
\* Analyze returned the empty Architecture with a nil error, the call was
\* answered with the error result, and the renderer was not invoked.
EmptyResultIsToolFailureWitness ==
    /\ hpc = "idle"
    /\ Records # {}
    /\ Len(toolResults) = 1
    /\ toolResults[1].analysis = <<ReturnArch(<<>>, FALSE, EmptyMap)>>
    /\ toolResults[1].result.IsError
    /\ rendered = <<>>

\* C16: output-shaping parameters have no bearing on the classification.
\* The handler passes repo_path, and nothing else, to Analyze; any two tool
\* calls with the same repo_path, whatever their output_path, title,
\* description, theme and widgets, call Analyze with the same argument and
\* get the same components, kinds and dependency index.
OutputShapingIrrelevant ==
    /\ hpc = "analyzing" => repoPath = request.repo_path.value
    /\ \A k \in DOMAIN toolResults :
          toolResults[k].analyzeArgs # <<>> =>
              toolResults[k].analyzeArgs = <<toolResults[k].Arguments.repo_path.value>>
    /\ \A k1, k2 \in DOMAIN toolResults :
          toolResults[k1].Arguments.repo_path = toolResults[k2].Arguments.repo_path =>
              /\ toolResults[k1].analyzeArgs = toolResults[k2].analyzeArgs
              /\ toolResults[k1].analysis = toolResults[k2].analysis

\* Two tool calls on the same repository that differ in output_path, title,
\* description, theme and widgets were both answered with components found.
OutputShapingIrrelevantWitness ==
    /\ Len(toolResults) = 2
    /\ LET a == toolResults[1]
           b == toolResults[2]
       IN  /\ a.Arguments.repo_path = b.Arguments.repo_path
           /\ \A key \in {"output_path", "title", "description", "theme", "widgets"} :
                 a.Arguments[key] # b.Arguments[key]
           /\ a.analysis # <<>>
           /\ Len(a.analysis[1].Components) = 2
           /\ b.analysis = a.analysis
    /\ Len(rendered) = 2
    /\ rendered[1].config # rendered[2].config
    /\ rendered[1].outputPath # rendered[2].outputPath

\* Whether the widgets argument is absent, empty, or names no valid widget.
NoWidgetSelected(args) ==
    \/ ~NonEmptyString(args.widgets)
    \/ ParseParts(Split(args.widgets.value, ","), 1) = <<>>

\* The widgets the description of the tool lists as available.
AvailableWidgets ==
    {"stats_cards", "architecture_graph", "components_pie", "dependencies_bar",
     "layer_flow", "dependency_matrix", "components_table", "package_tree"}

\* C19 as stated: the default widget selection is all widgets.  When the
\* widgets argument is absent, empty or names no valid widget, the
\* configuration of the report holds every one of the eight available
\* widgets.
DefaultWidgetsAreAllEight ==
    (hpc = "analyzing" /\ NoWidgetSelected(request)) =>
        Range(config.Widgets) = AvailableWidgets

---------------------------------------------------------------------------
(* The graph resolution, section 4.3.                                      *)

\* The component list as the second walk leaves it: what the detector emits
\* for the candidate files that parse, in the order of the walk, with the
\* complete catalog.
RawComponents == DetectInOrder(Ascending(ParsedFiles), 1, AllInterfaces)

\* The subsequence of deps of the names that are in names.
RECURSIVE KeepRetained(_, _)
KeepRetained(deps, names) ==
    IF deps = <<>> THEN <<>>
    ELSE (IF Head(deps) \in names THEN <<Head(deps)>> ELSE <<>>)
             \o KeepRetained(Tail(deps), names)

NoDuplicates(seq) == \A a, b \in DOMAIN seq : seq[a] = seq[b] => a = b

\* C21: graph resolution is an order-preserving filter.  In the Architecture
\* a call returns, the Dependencies of every component are the subsequence of
\* the dependencies extracted for it of the names of the returned components,
\* in the same order; no name is added and the list has no duplicate.
ResolutionIsOrderPreservingFilter ==
    pc = "done" =>
        LET raw      == RawComponents
            returned == results[Len(results)].Components
        IN  /\ Len(returned) = Len(raw)
            /\ \A i \in DOMAIN returned :
                  /\ returned[i].Dependencies
                        = KeepRetained(raw[i].Dependencies, NamesOf(returned))
                  /\ Range(returned[i].Dependencies) \subseteq Range(raw[i].Dependencies)
                  /\ NoDuplicates(returned[i].Dependencies)

\* Analyze has returned a component of which the resolution kept two
\* dependencies, and one of which it dropped a dependency.
ResolutionIsOrderPreservingFilterWitness ==
    /\ pc = "done"
    /\ \E i \in DOMAIN components : Len(components[i].Dependencies) >= 2
    /\ \E i \in DOMAIN components :
          Len(components[i].Dependencies) < Len(RawComponents[i].Dependencies)

\* C22: graph resolution changes nothing but dependencies.  No step of the
\* resolution removes, adds or reorders a component or changes a component's
\* Name, Type, Package or FilePath, and the list Analyze returns is the list
\* the resolution leaves: a component emitted as Handler or Service stays in
\* the result with its kind also when none of its dependencies resolves.
ResolutionChangesOnlyDependencies ==
    [][ pc = "resolve" =>
          /\ Len(components') = Len(components)
          /\ \A i \in DOMAIN components :
                /\ components'[i].Name = components[i].Name
                /\ components'[i].Type = components[i].Type
                /\ components'[i].Package = components[i].Package
                /\ components'[i].FilePath = components[i].FilePath
          /\ pc' = "done" => results'[Len(results')].Components = components ]_vars

\* Analyze has returned a Handler whose extracted dependencies all failed to
\* resolve.
ResolutionChangesOnlyDependenciesWitness ==
    /\ pc = "done"
    /\ \E i \in DOMAIN results[Len(results)].Components :
          /\ results[Len(results)].Components[i].Type = ComponentHandler
          /\ results[Len(results)].Components[i].Dependencies = <<>>
          /\ Len(RawComponents[i].Dependencies) = 2

---------------------------------------------------------------------------
(* extractInterfaceDependencies evaluated on its own.                      *)

\* A record evaluated by extractInterfaceDependencies has at most this many
\* fields.
MaxFields == 3

\* Field types, each with the bare name Go's grammar gives it ("" when it has
\* none): a primitive, named types, pointers, qualified names, a slice.
TypeExprs ==
    { [expr |-> Ident("string"),                          bare |-> "string"],
      [expr |-> Ident("UserClient"),                      bare |-> "UserClient"],
      [expr |-> StarExpr(Ident("UserClient")),            bare |-> "UserClient"],
      [expr |-> SelectorExpr("port", "Notifier"),         bare |-> "Notifier"],
      [expr |-> StarExpr(SelectorExpr("db", "Conn")),     bare |-> "Conn"],
      [expr |-> Ident("AuthToken"),                       bare |-> "AuthToken"],
      [expr |-> StarExpr(StarExpr(Ident("Notifier"))),    bare |-> "Notifier"],
      [expr |-> ArrayType(Ident("Logger")),               bare |-> ""] }

\* The catalogs the first walk may have left.
Catalogs == SUBSET {"Notifier", "Conn"}

FieldSeqs ==
    UNION { [1..n -> {t.expr : t \in TypeExprs}] : n \in 0..MaxFields }

ExtractInit ==
    /\ repoPath \in RepoPaths
    /\ tree = <<DirEntry("")>>
    /\ Idle
    /\ evalArgs \in {<<fields, catalog>> : fields \in FieldSeqs, catalog \in Catalogs}
    /\ evalResult = <<>>

\* extractInterfaceDependencies(structType, interfaces)
ExtractCall ==
    /\ evalResult = <<>>
    /\ evalResult' = <<ExtractInterfaceDependencies(evalArgs[1], evalArgs[2])>>
    /\ UNCHANGED <<repoPath, tree, pc, idx, interfaces, components, dependencies,
                   componentNames, ri, err, componentsIsNil, parsed, results,
                   evalArgs>>
    /\ UNCHANGED toolVars

ExtractNext == ExtractCall

ExtractSpec == ExtractInit /\ [][ExtractNext]_vars

\* The bare name of a field type of the catalogue.
BareName(expr) == (CHOOSE t \in TypeExprs : t.expr = expr).bare

\* The substrings that make a lowercased name look like a dependency.
ListedSubstrings ==
    {"service", "store", "repo", "repository", "client", "api", "adapter",
     "provider", "auth", "logger", "db", "database", "generative", "generator"}

\* Whether a bare name counts as a dependency under the given catalog.
Qualifies(name, catalog) ==
    \/ name \in catalog
    \/ LET lower == ToLower(name)
       IN  \E s \in ListedSubstrings : Contains(lower, s)

\* The position of the first field whose bare name is name.
FirstOccurrence(fields, name) ==
    CHOOSE k \in DOMAIN fields :
        /\ BareName(fields[k]) = name
        /\ \A j \in DOMAIN fields : BareName(fields[j]) = name => k <= j

\* C23: dependency extraction.  A name is among the extracted dependencies of
\* a record iff it is the bare name of one of its fields and is in the catalog
\* or looks like a dependency; the list has no duplicate and is ordered by the
\* first field of each name; a field without a bare name contributes nothing.
DependencyExtraction ==
    evalResult # <<>> =>
        LET fields  == evalArgs[1]
            catalog == evalArgs[2]
            deps    == evalResult[1]
            bare    == {BareName(fields[k]) : k \in DOMAIN fields}
        IN  /\ Range(deps) = {name \in bare : name # "" /\ Qualifies(name, catalog)}
            /\ NoDuplicates(deps)
            /\ \A a, b \in DOMAIN deps :
                  a < b => FirstOccurrence(fields, deps[a]) < FirstOccurrence(fields, deps[b])

\* A record with the fields **Notifier, []Logger and *UserClient, Notifier
\* being a cataloged interface: the slice contributes nothing, the other two
\* their bare names in field order.
DependencyExtractionWitness ==
    /\ evalArgs = << <<StarExpr(StarExpr(Ident("Notifier"))), ArrayType(Ident("Logger")),
                      StarExpr(Ident("UserClient"))>>,
                    {"Notifier"} >>
    /\ evalResult = << <<"Notifier", "UserClient">> >>

---------------------------------------------------------------------------
(* The order of the component list.                                        *)

\* A repository of the discovery family holds at most this many source files.
MaxSiteFiles == 3

\* Source files that declare several record types, some of them under a name
\* another package uses too, in the order the walk meets them.
SiteBlocks ==
    << <<DirEntry("adapter"),
         FileEntry("adapter/c.go", "adapter",
             <<StructSpec("Pool", <<>>), StructSpec("ClientConfig", <<>>),
               StructSpec("Client", <<>>)>>)>>,
       <<DirEntry("client"),
         FileEntry("client/c.go", "client",
             <<StructSpec("Client", <<StarExpr(Ident("DB")),
                                      StarExpr(Ident("Client"))>>)>>)>>,
       <<DirEntry("service"),
         FileEntry("service/s.go", "service",
             <<StructSpec("ZetaService", <<Ident("Logger")>>),
               StructSpec("helper", <<Ident("Logger")>>),
               StructSpec("AlphaService", <<Ident("Logger"), Ident("Client")>>)>>)>>,
       <<DirEntry("store"),
         FileEntry("store/db.go", "store",
             <<StructSpec("DB", <<>>), StructSpec("Client", <<>>)>>)>> >>

RECURSIVE SiteBlocksFrom(_, _)
SiteBlocksFrom(i, S) ==
    IF i > Len(SiteBlocks) THEN <<>>
    ELSE (IF i \in S THEN SiteBlocks[i] ELSE <<>>) \o SiteBlocksFrom(i + 1, S)

SiteTree(S) == <<DirEntry("")>> \o SiteBlocksFrom(1, S)

\* The repositories of the family: up to MaxSiteFiles of the files, and two
\* with a directory that cannot be read in both walks or in the second.
DiscoveryInit ==
    /\ repoPath \in RepoPaths
    /\ \/ \E S \in SUBSET (1..Len(SiteBlocks)) :
             /\ Cardinality(S) <= MaxSiteFiles
             /\ tree = SiteTree(S)
       \/ \E fault \in {"unreadable", "revoked"} :
             tree = WithFault(SiteTree({1, 3}), 4, fault)
    /\ Idle
    /\ NotEvaluating

DiscoverySpec == DiscoveryInit /\ [][Next]_vars

\* The declaration sites that qualify as components: <<file, declaration>>.
QualifyingSites ==
    {fk \in Records :
        /\ ~ShouldSkipStruct(RecordName(fk))
        /\ DetectComponentTypeFromContext(Dir(tree[fk[1]].path), RecordName(fk),
               ExtractInterfaceDependencies(RecordFields(fk), AllInterfaces)) # ""}

\* Whether site f is discovered before site g: its file is visited earlier,
\* or it is declared earlier in the same file.
DiscoveredBefore(f, g) == f[1] < g[1] \/ (f[1] = g[1] /\ f[2] < g[2])

\* The position of a site among the given sites in discovery order.
SiteRank(fk, sites) == 1 + Cardinality({g \in sites : DiscoveredBefore(g, fk)})

\* C24: the component list is the sequence of the qualifying declaration
\* sites in discovery order.  While the second walk stands at entry idx the
\* list holds one component for every qualifying site of the files before
\* idx, at the position of the site in discovery order (so entries are only
\* ever added at the end, and nothing is sorted or merged by name); from the
\* end of the walk on it holds one for every qualifying site.
DiscoveryOrder ==
    pc \in {"pass2", "resolve", "done"} =>
        LET sites == IF pc = "pass2"
                     THEN {fk \in QualifyingSites : fk[1] < idx}
                     ELSE QualifyingSites
        IN  /\ Len(components) = Cardinality(sites)
            /\ \A fk \in sites :
                  /\ components[SiteRank(fk, sites)].Name = RecordName(fk)
                  /\ components[SiteRank(fk, sites)].FilePath = tree[fk[1]].path

\* Analyze has returned Pool and Client of adapter/c.go, ZetaService and
\* AlphaService of service/s.go and DB and Client of store/db.go, in this
\* order.
DiscoveryOrderWitness ==
    /\ pc = "done"
    /\ Len(results[Len(results)].Components) = 6
    /\ [i \in 1..6 |-> results[Len(results)].Components[i].Name]
          = <<"Pool", "Client", "ZetaService", "AlphaService", "DB", "Client">>

---------------------------------------------------------------------------
(* The interface catalog, section 3.                                       *)

\* C25: the interface catalog only grows during pass one and is left
\* unchanged by pass two and by graph resolution.  No step of the first walk
\* removes a name; no step of the second walk or of the resolution, whatever
\* names it looks up, adds or removes one.
CatalogFrozenAfterPassOne ==
    [][ /\ pc = "pass1" => interfaces \subseteq interfaces'
        /\ pc \in {"pass2", "resolve"} => interfaces' = interfaces ]_vars

\* The second walk has evaluated OrderService, whose field types are
\* OrderRepository, which the catalog does not hold, and PaymentClient, which
\* it holds; the catalog is what the first walk left.
CatalogFrozenAfterPassOneWitness ==
    /\ pc = "resolve"
    /\ interfaces = {"PaymentClient", "Notifier"}
    /\ \E i \in DOMAIN components : components[i].Name = "OrderService"

---------------------------------------------------------------------------
(* detectComponentTypeFromContext evaluated on its own.                    *)

\* A record evaluated by detectComponentTypeFromContext has at most this many
\* extracted dependencies.
MaxDeps == 2

\* Package paths, each with whether it contains "config" in any letter case.
ClassifyPaths ==
    { [path |-> ".",                     config |-> FALSE],
      [path |-> "internal/store",        config |-> FALSE],
      [path |-> "confi/g",               config |-> FALSE],
      [path |-> "config",                config |-> TRUE],
      [path |-> "internal/Config/store", config |-> TRUE],
      [path |-> "appCONFIG/repository",  config |-> TRUE],
      [path |-> "api/reconfigure",       config |-> TRUE],
      [path |-> "configclient",          config |-> TRUE],
      [path |-> "service/config",        config |-> TRUE] }

ClassifyNames ==
    {"DB", "OrderRepository", "UserStore", "Engine", "PingHandler", "UserService"}

\* The first n of three dependencies.
ClassifyDeps(n) == SubSeq(<<"UserRepo", "Logger", "Notifier">>, 1, n)

ClassifyInit ==
    /\ repoPath \in RepoPaths
    /\ tree = <<DirEntry("")>>
    /\ Idle
    /\ evalArgs \in {<<p.path, name, ClassifyDeps(n)>> :
                        p \in ClassifyPaths, name \in ClassifyNames, n \in 0..MaxDeps}
    /\ evalResult = <<>>

\* detectComponentTypeFromContext(pkgPath, structName, deps)
ClassifyCall ==
    /\ evalResult = <<>>
    /\ evalResult' = <<DetectComponentTypeFromContext(evalArgs[1], evalArgs[2],
                                                      evalArgs[3])>>
    /\ UNCHANGED <<repoPath, tree, pc, idx, interfaces, components, dependencies,
                   componentNames, ri, err, componentsIsNil, parsed, results,
                   evalArgs>>
    /\ UNCHANGED toolVars

ClassifyNext == ClassifyCall

ClassifySpec == ClassifyInit /\ [][ClassifyNext]_vars

\* Whether the package path contains "config" in any letter case.
UnderConfig(path) == (CHOOSE p \in ClassifyPaths : p.path = path).config

\* C26: no record whose package path contains "config" (case-insensitive) is
\* classified Repository, whatever its name; it becomes Handler, Adapter or
\* Service or is discarded.
NoRepositoryUnderConfig ==
    (evalResult # <<>> /\ UnderConfig(evalArgs[1])) =>
        /\ evalResult[1] # ComponentRepository
        /\ evalResult[1] \in {ComponentHandler, ComponentAdapter, ComponentService, ""}

\* DB without dependencies in internal/Config/store was discarded.
NoRepositoryUnderConfigWitness ==
    /\ evalArgs = <<"internal/Config/store", "DB", <<>>>>
    /\ evalResult = <<"">>

---------------------------------------------------------------------------
(* Kinds and extracted dependencies.                                       *)

\* C27: every emitted component that had zero extracted dependencies is of
\* kind Repository or Adapter.  This holds of the list the second walk leaves
\* and, by the dependencies extracted for it, of every component Analyze
\* returns: Handler and Service are only given to records with at least one
\* extracted dependency.
ZeroDependenciesMeansRepositoryOrAdapter ==
    /\ BeforeResolution =>
          \A i \in DOMAIN components :
              components[i].Dependencies = <<>>
                  => components[i].Type \in {ComponentRepository, ComponentAdapter}
    /\ pc = "done" =>
          LET raw      == RawComponents
              returned == results[Len(results)].Components
          IN  \A i \in DOMAIN returned :
                  \/ returned[i].Type \in {ComponentRepository, ComponentAdapter}
                  \/ ~(i \in DOMAIN raw /\ raw[i].Dependencies = <<>>)

\* The second walk has emitted an Adapter and a Repository without extracted
\* dependencies, and a Service with some.
ZeroDependenciesMeansRepositoryOrAdapterWitness ==
    /\ pc = "resolve" /\ ri = 1
    /\ \E i \in DOMAIN components :
          components[i].Type = ComponentAdapter /\ components[i].Dependencies = <<>>
    /\ \E i \in DOMAIN components :
          components[i].Type = ComponentRepository /\ components[i].Dependencies = <<>>
    /\ \E i \in DOMAIN components :
          components[i].Type = ComponentService /\ components[i].Dependencies # <<>>

---------------------------------------------------------------------------
(* The protocol of the tool handler.                                       *)

\* Whether a repository path exists on the machine of the model.
PathExists(path) ==
    path = "/srv/app" /\ tree[1].errs[1] # "no such file or directory"

\* Whether the arguments pass the validation of the handler.
ValidRequest(args) == args.repo_path.type = "string" /\ PathExists(args.repo_path.value)

\* The calls of the renderer the answered tool calls made, in order.
RECURSIVE RenderCalls(_)
RenderCalls(k) ==
    IF k > Len(toolResults) THEN <<>>
    ELSE toolResults[k].render \o RenderCalls(k + 1)

\* C28: the protocol of the tool handler.  The handler returns a nil Go error
\* with every result, a failure being a result with IsError set.  A call
\* whose repo_path is missing, not a string or not an existing path runs
\* neither Analyze nor the renderer; Analyze runs only inside a call that
\* passed the validation; the renderer runs only after Analyze returned an
\* Architecture with at least one component, on that Architecture, and never
\* while Analyze runs; a result that is not an error is returned only after
\* the renderer returned without error.
ToolHandlerProtocol ==
    /\ \A k \in DOMAIN toolResults :
          LET a == toolResults[k]
          IN  /\ a.err = "nil"
              /\ ~ValidRequest(a.Arguments) =>
                    /\ a.analyzeArgs = <<>> /\ a.analysis = <<>> /\ a.render = <<>>
                    /\ a.result.IsError
              /\ ValidRequest(a.Arguments) => Len(a.analyzeArgs) = 1 /\ Len(a.analysis) = 1
              /\ a.render # <<>> =>
                    /\ a.analysis # <<>>
                    /\ a.analysis[1].err = "nil"
                    /\ Len(a.analysis[1].Components) >= 1
                    /\ a.render[1].arch = a.analysis[1]
              /\ ~a.result.IsError => (a.render # <<>> /\ a.render[1].err = "nil")
              /\ (a.render # <<>> /\ a.render[1].err # "nil") => a.result.IsError
    /\ rendered = RenderCalls(1)
    /\ pc \in {"pass1", "pass2", "resolve"} => hpc = "analyzing"
    /\ hpc = "analyzing" => ValidRequest(request)
    /\ Len(results) =
          Cardinality({k \in DOMAIN toolResults : toolResults[k].analysis # <<>>})
              + (IF hpc = "analyzing" /\ pc \in {"done", "failed"} THEN 1 ELSE 0)

\* Two tool calls were answered: one on a path that does not exist, for which
\* neither Analyze nor the renderer ran, and one for which Analyze found
\* components and the renderer failed to write the report.
ToolHandlerProtocolWitness ==
    /\ hpc = "idle"
    /\ Len(toolResults) = 2
    /\ toolResults[1].Arguments.repo_path = Str("/srv/gone")
    /\ toolResults[1].analysis = <<>>
    /\ toolResults[1].result.IsError
    /\ toolResults[2].render # <<>>
    /\ toolResults[2].render[1].err = "permission denied"
    /\ toolResults[2].result.IsError
    /\ Len(results) = 1
    /\ Len(rendered) = 1

---------------------------------------------------------------------------
(* One repository at several places of the file system.                    *)

\* Absolute paths at which the repository may be checked out.
RootPaths ==
    {"/srv/app", "/home/dev/vendor/app", "/srv/mockups/app", "/srv/app_mock",
     "/srv/vendor"}

\* The repositories of this family, two of them with an entry that cannot be
\* read in both walks or in the second.
RootTrees ==
    { MultiTree({3}),
      MultiTree({4, 5, 7}),
      PolicyTree({4, 7}),
      WithFault(MultiTree({4, 5}), 4, "unreadable"),
      WithFault(MultiTree({4, 5}), 4, "revoked") }

RootInit ==
    /\ repoPath \in RepoPaths
    /\ tree \in RootTrees
    /\ Idle
    /\ NotEvaluating

\* A caller calls Analyze on the repository at one of its places.
AnalyzeAt ==
    /\ pc \in {"idle", "done", "failed"}
    /\ Len(results) < MaxCalls
    /\ \E path \in RootPaths : AnalyzeCall(path)
    /\ UNCHANGED <<tree, results>>
    /\ UNCHANGED <<toolVars, unitVars>>

RootNext ==
    \/ AnalyzeAt
    \/ Pass1Visit
    \/ Pass1Fail
    \/ Pass1End
    \/ Pass2Visit
    \/ Pass2Fail
    \/ Pass2End
    \/ ResolveStep
    \/ Return

RootSpec == RootInit /\ [][RootNext]_vars

\* The candidate source files by their paths relative to the root: those
\* below no excluded directory, ending in .go but not in _test.go, without a
\* mock marker in the relative path.
RelativeCandidates ==
    {i \in DOMAIN tree :
        /\ ~tree[i].isDir
        /\ ~\E j \in 2..(i - 1) :
               /\ tree[j].isDir
               /\ IsUnder(tree[i].path, tree[j].path)
               /\ Base(tree[j].path) \in ExcludedDirNames
        /\ HasSuffix(tree[i].path, ".go")
        /\ ~HasSuffix(tree[i].path, "_test.go")
        /\ ~Contains("/" \o tree[i].path, "/mock")
        /\ ~Contains(tree[i].path, "_mock")}

\* C29 as stated: whether a file is a candidate depends only on its path
\* relative to the analyzed root.  Whatever the absolute place of the root,
\* the walks hand the parser the files picked by their relative paths, and
\* all calls on the same tree return the same.
CandidatesDependOnRelativePathOnly ==
    /\ pc \in {"pass2", "resolve", "done"} => parsed[1] = RelativeCandidates
    /\ \A r1, r2 \in DOMAIN results : results[r1] = results[r2]

---------------------------------------------------------------------------
(* parseWidgets evaluated on its own.                                      *)

\* The widgets argument evaluated by parseWidgets has at most this many
\* comma-separated parts.
MaxParts == 3

\* Parts of a widgets argument, each with the widget it names ("" when it
\* names none).
WidgetParts ==
    { [text |-> "stats_cards",      widget |-> WidgetStatsCards],
      [text |-> " Package_Tree ",   widget |-> WidgetPackageTree],
      [text |-> "\tLAYER_FLOW",     widget |-> WidgetLayerFlow],
      [text |-> "components_pie ",  widget |-> WidgetComponentsPie],
      [text |-> "stats cards",      widget |-> ""],
      [text |-> "bogus",            widget |-> ""],
      [text |-> " ",                widget |-> ""],
      [text |-> "",                 widget |-> ""] }

\* The parts joined with commas.
RECURSIVE JoinParts(_)
JoinParts(parts) ==
    IF Len(parts) = 1 THEN parts[1].text
    ELSE parts[1].text \o "," \o JoinParts(Tail(parts))

\* evalArgs holds the argument of parseWidgets and, after it, the parts the
\* argument was written from.
WidgetInit ==
    /\ repoPath \in RepoPaths
    /\ tree = <<DirEntry("")>>
    /\ Idle
    /\ evalArgs \in {<<JoinParts(parts), parts>> :
                        parts \in UNION {[1..n -> WidgetParts] : n \in 1..MaxParts}}
    /\ evalResult = <<>>

\* parseWidgets(widgetsStr)
ParseWidgetsCall ==
    /\ evalResult = <<>>
    /\ evalResult' = <<ParseWidgets(evalArgs[1])>>
    /\ UNCHANGED <<repoPath, tree, pc, idx, interfaces, components, dependencies,
                   componentNames, ri, err, componentsIsNil, parsed, results,
                   evalArgs>>
    /\ UNCHANGED toolVars

WidgetNext == ParseWidgetsCall

WidgetSpec == WidgetInit /\ [][WidgetNext]_vars

\* The widgets the parts name, in the order of the parts.
RECURSIVE NamedWidgets(_)
NamedWidgets(parts) ==
    IF parts = <<>> THEN <<>>
    ELSE (IF Head(parts).widget = "" THEN <<>> ELSE <<Head(parts).widget>>)
             \o NamedWidgets(Tail(parts))

\* C30: widget parsing.  parseWidgets returns the widgets that the
\* comma-separated parts of its argument name, letter case and surrounding
\* white space aside, in the order of the parts, unknown parts left out and
\* repeated ones kept; when no part names a widget it returns the default
\* widget list; the result is never empty and each of its elements is one of
\* the eight widget types.
WidgetParsing ==
    evalResult # <<>> =>
        LET named   == NamedWidgets(evalArgs[2])
            widgets == evalResult[1]
        IN  /\ widgets = (IF named = <<>> THEN DefaultConfig.Widgets ELSE named)
            /\ widgets # <<>>
            /\ Range(widgets) \subseteq AvailableWidgets

\* " Package_Tree ,bogus, Package_Tree " was parsed to package_tree twice.
WidgetParsingWitness ==
    /\ evalArgs[1] = " Package_Tree ,bogus, Package_Tree "
    /\ evalResult = << <<WidgetPackageTree, WidgetPackageTree>> >>

=============================================================================
